---- MODULE Spec2Model ----
(***************************************************************************)
(* Incident Command / Decision Intelligence: the local record store        *)
(* (src/api/localDb.js), its seeding (src/api/seed.js), the client with    *)
(* its generator functions (appClient) and the page workflows that drive   *)
(* them.                                                                   *)
(*                                                                         *)
(* Conventions of the model                                                *)
(*  - a record is a function from field names to values; a field that is   *)
(*    undefined in JavaScript is a field outside the record's DOMAIN;      *)
(*  - a timestamp is the number of milliseconds Date.now() returns.  The   *)
(*    code stores Date#toISOString() of it, a fixed-width string whose     *)
(*    lexical order is the numeric order of the milliseconds, so the       *)
(*    comparisons of the code are the comparisons of these numbers;        *)
(*  - a 0..1 score of the code (0.76) is kept as hundredths (76);          *)
(*  - uuid() returns an id no earlier call returned and no seed uses.      *)
(***************************************************************************)
EXTENDS Integers, Sequences, FiniteSets, TLC

VARIABLES
  tables,       \* memory.db.tables: table name -> sequence of records
  meta,         \* memory.meta
  durableDb,    \* localStorage["icdi_local_db_v1"]
  durableMeta,  \* localStorage["icdi_local_meta_v1"]
  hasStorage,   \* what hasLocalStorage() returns in this browser
  clock,        \* Date.now()
  nextId,       \* number of uuid() calls so far
  result,       \* what the last call returned or threw
  lastCreate,   \* history: the last db.create call, its data and its record
  procs,        \* the asynchronous calls in flight, in the order they resume
  view,         \* the IncidentDetail page: its incident id and cached query
  lastAct,      \* history: the operation the last step belongs to
  used,         \* how much of each bound of the model has been used
  peer          \* a second tab on the same storage: its memory and last call

vars == <<tables, meta, durableDb, durableMeta, hasStorage, clock, nextId,
          result, lastCreate, procs, view, lastAct, used, peer>>

----------------------------------------------------------------------------
(* Bounds of the model *)

MaxTicks == 1
MaxCalls == 2
MaxStarts == 2
MaxProcs == 2
MaxVolume == 101

----------------------------------------------------------------------------
(* Generic helpers *)

Range(s) == {s[i] : i \in 1..Len(s)}

Has(r, f) == f \in DOMAIN r

\* The value of an expression that is evaluated once.
The(S) == CHOOSE v \in S : TRUE

\* JavaScript object spread {...a, ...b}: b's fields override a's.
Spread(a, b) ==
  [k \in (DOMAIN a) \cup (DOMAIN b) |-> IF k \in DOMAIN b THEN b[k] ELSE a[k]]

Hour == 60 * 60 * 1000

\* The time of the first page load: 500 hours into the epoch (the seed
\* backdates records by up to 200 hours).
Now0 == 500 * Hour

ago(now, hours) == now - hours * Hour

----------------------------------------------------------------------------
(* src/api/seed.js: the starter data of ensureSeeded *)

seedIncidents(now) ==
  <<[id |-> "inc_001",
     created_date |-> ago(now, 26),
     title |-> "Database Connection Pool Exhaustion - Production",
     description |-> "Multiple microservices reporting connection timeouts to PostgreSQL cluster. Error rate spiking to 23% on checkout API. Customer-facing impact detected.",
     severity |-> "critical",
     status |-> "awaiting_approval",
     source |-> "Datadog",
     affected_systems |-> <<"PostgreSQL Primary", "Checkout API", "Payment Service", "Order Service">>,
     assigned_to |-> "SRE On-Call",
     ai_analysis |-> [confidence_score |-> 76,
       summary |-> "Critical impact detected. Symptoms strongly indicate database connection pool saturation causing upstream request failures across checkout/payment workloads."]],
    [id |-> "inc_002",
     created_date |-> ago(now, 24),
     title |-> "AWS us-east-1 API Gateway Latency Degradation",
     description |-> "P99 latency increased from 120ms to 2.3s on primary API gateway. Regional failover consideration required.",
     severity |-> "high",
     status |-> "new",
     source |-> "CloudWatch",
     affected_systems |-> <<"API Gateway", "Lambda Functions", "DynamoDB">>,
     assigned_to |-> "Cloud Platform",
     ai_analysis |-> [confidence_score |-> 71,
       summary |-> "Elevated gateway latency suggests upstream dependency or regional capacity degradation. Prioritize mitigation and confirm whether retries are amplifying load."]],
    [id |-> "inc_003",
     created_date |-> ago(now, 22),
     title |-> "Memory Leak in Authentication Service",
     description |-> "Gradual memory increase over 72 hours leading to OOM kills. Pod restarts every 4-6 hours.",
     severity |-> "medium",
     status |-> "in_progress",
     source |-> "Prometheus",
     affected_systems |-> <<"Auth Service", "Kubernetes Cluster">>,
     assigned_to |-> "Identity & Access",
     ai_analysis |-> [confidence_score |-> 75,
       summary |-> "Consistent memory growth pattern points to a leak. Mitigate with resource limits and restart strategy while investigating recent code paths and allocations."]],
    [id |-> "inc_004",
     created_date |-> ago(now, 48),
     title |-> "SSL Certificate Expiration Warning - Edge",
     description |-> "TLS certificate approaching expiration on edge endpoints. No customer impact yet; renew before expiry to avoid outages.",
     severity |-> "low",
     status |-> "resolved",
     source |-> "Security Scanner",
     affected_systems |-> <<"Load Balancer", "CDN">>,
     resolved_at |-> ago(now, 40),
     resolution_notes |-> "Renewed certificate and validated chain across edge points-of-presence.",
     assigned_to |-> "Security Ops",
     ai_analysis |-> [confidence_score |-> 74,
       summary |-> "Preventative action taken. Certificate renewal completed; monitoring confirms stable edge handshake success rates."]]>>

seedArticles(now) ==
  <<[id |-> "kb_001",
     created_date |-> ago(now, 120),
     title |-> "Runbook: Troubleshoot SSO callback failures",
     summary |-> "Steps to diagnose auth callback 5xx, token validation errors, and certificate/clock skew issues.",
     content |-> "## Checklist\n- Verify IdP status\n- Check token validation logs\n- Confirm certificate chain and time sync\n\n## Rollback\n- Revert recent auth config\n",
     tags |-> <<"auth", "sso", "identity">>,
     category |-> "runbook",
     status |-> "published"],
    [id |-> "kb_002",
     created_date |-> ago(now, 200),
     title |-> "Runbook: Payments API latency and DB saturation",
     summary |-> "DB connection pool, slow queries, and cache strategies for checkout stability.",
     content |-> "## Signals\n- Connection pool saturation\n- Query timeouts\n\n## Mitigations\n- Increase pool cautiously\n- Enable read replica\n",
     tags |-> <<"payments", "database", "latency">>,
     category |-> "runbook",
     status |-> "published"]>>

seedAuditLog(now) ==
  <<[id |-> "log_001",
     created_date |-> ago(now, 26),
     updated_date |-> ago(now, 26),
     incident_id |-> "inc_001",
     action_type |-> "incident_created",
     actor |-> "demo.user@example.com",
     details |-> [severity |-> "critical",
       source |-> "Datadog"]],
    [id |-> "log_002",
     created_date |-> ago(now, 24),
     updated_date |-> ago(now, 24),
     incident_id |-> "inc_002",
     action_type |-> "incident_created",
     actor |-> "demo.user@example.com",
     details |-> [severity |-> "high",
       source |-> "CloudWatch"]],
    [id |-> "log_003",
     created_date |-> ago(now, 22),
     updated_date |-> ago(now, 22),
     incident_id |-> "inc_003",
     action_type |-> "incident_created",
     actor |-> "demo.user@example.com",
     details |-> [severity |-> "medium",
       source |-> "Prometheus"]]>>

seedDecision(now) ==
  <<[id |-> "dec_001",
     created_date |-> ago(now, 18),
     updated_date |-> ago(now, 18),
     incident_id |-> "inc_001",
     recommendation_action |-> "Implement LRU eviction policy for cache layer",
     decision |-> "approved",
     decided_by |-> "sre@company.com",
     decided_at |-> ago(now, 18),
     decision_reason |-> "Agreed with AI analysis. Cache growth contributes to pressure during peak traffic."],
    [id |-> "dec_002",
     created_date |-> ago(now, 12),
     updated_date |-> ago(now, 12),
     incident_id |-> "inc_004",
     recommendation_action |-> "Manually renew SSL certificate",
     decision |-> "approved",
     decided_by |-> "devops@company.com",
     decided_at |-> ago(now, 12),
     decision_reason |-> "Certificate expiration is a P1 risk. Proceeding with renewal and validation."]>>

seedPredictiveAlert(now) ==
  <<[id |-> "pa_001",
     created_date |-> ago(now, 3),
     updated_date |-> ago(now, 3),
     severity |-> "critical",
     likelihood |-> 82,
     predicted_timeframe |-> "within 48-72 hours",
     predicted_issue |-> "PostgreSQL Connection Pool Exhaustion During Peak Hours",
     description |-> "Historical pattern shows database connection pool saturation occurring every 2-3 weeks during high-traffic periods. With Black Friday approaching, risk of critical outage is elevated.",
     affected_systems |-> <<"PostgreSQL Primary", "Checkout API", "Payment Service", "Order Service">>,
     confidence_score |-> 82,
     contributing_factors |-> <<"Traffic surges", "Connection pool near limit", "Slow queries under load">>,
     preventative_actions |-> <<"Increase pool cautiously", "Enable query sampling", "Prepare rollback/runbook">>,
     status |-> "active"],
    [id |-> "pa_002",
     created_date |-> ago(now, 3),
     updated_date |-> ago(now, 3),
     severity |-> "high",
     likelihood |-> 76,
     predicted_timeframe |-> "within 3-5 days",
     predicted_issue |-> "Authentication Service Memory Leak Leading to OOM Crash",
     description |-> "Auth Service shows consistent memory growth pattern over 72-hour periods. Based on current trajectory, next OOM crash predicted during business hours affecting user logins.",
     affected_systems |-> <<"Auth Service", "Kubernetes Cluster", "User Session Management">>,
     confidence_score |-> 76,
     contributing_factors |-> <<"Increasing heap usage", "Frequent pod restarts", "Peak login hours">>,
     preventative_actions |-> <<"Enable heap profiling", "Tighten resource limits", "Roll forward fix">>,
     status |-> "active"],
    [id |-> "pa_003",
     created_date |-> ago(now, 3),
     updated_date |-> ago(now, 3),
     severity |-> "critical",
     likelihood |-> 70,
     predicted_timeframe |-> "within 3-5 days",
     predicted_issue |-> "Database Connection Failure",
     description |-> "Given the recent critical incident of connection pool exhaustion on PostgreSQL, there is a heightened risk of complete connection failure due to recurring traffic patterns and resource exhaustion.",
     affected_systems |-> <<"PostgreSQL Primary", "Checkout API", "Payment Service", "Order Service">>,
     confidence_score |-> 75,
     contributing_factors |-> <<"Recurring high traffic", "Pool exhaustion", "Backpressure missing">>,
     preventative_actions |-> <<"Add alerting for pool saturation", "Review query plans", "Scale read replicas">>,
     status |-> "active"],
    [id |-> "pa_004",
     created_date |-> ago(now, 2),
     updated_date |-> ago(now, 2),
     severity |-> "high",
     likelihood |-> 68,
     predicted_timeframe |-> "within 12-24 hours",
     predicted_issue |-> "Lambda Cold Start Cascade During Regional AWS Outage",
     description |-> "AWS us-east-1 showing elevated error rates. If degradation continues, cold start amplification could cause 5-10 minute API unavailability affecting all services.",
     affected_systems |-> <<"API Gateway", "Lambda Functions", "DynamoDB", "CloudFront">>,
     confidence_score |-> 68,
     contributing_factors |-> <<"Regional error rates", "Concurrency spikes", "Retry storms">>,
     preventative_actions |-> <<"Pre-warm critical functions", "Set reserved concurrency", "Enable multi-region failover">>,
     status |-> "active"],
    [id |-> "pa_005",
     created_date |-> ago(now, 2),
     updated_date |-> ago(now, 2),
     severity |-> "high",
     likelihood |-> 75,
     predicted_timeframe |-> "3-5 days",
     predicted_issue |-> "Increased Latency in API Gateway",
     description |-> "Recent latency degradation hints at an ongoing issue which may escalate during peak usage. If left unaddressed, increased traffic could exacerbate latency further.",
     affected_systems |-> <<"API Gateway", "Lambda Functions", "DynamoDB">>,
     confidence_score |-> 75,
     contributing_factors |-> <<"Traffic growth", "Regional contention", "Upstream dependency">>,
     preventative_actions |-> <<"Enable caching", "Tune timeouts", "Deploy regional failover">>,
     status |-> "active"],
    [id |-> "pa_006",
     created_date |-> ago(now, 2),
     updated_date |-> ago(now, 2),
     severity |-> "high",
     likelihood |-> 70,
     predicted_timeframe |-> "within 3-5 days",
     predicted_issue |-> "Increased Latency in API Gateway",
     description |-> "Ongoing gateway degradation could worsen if retries and bursts continue. Monitor p99 and error rate trends closely.",
     affected_systems |-> <<"API Gateway", "Lambda Functions", "DynamoDB">>,
     confidence_score |-> 70,
     contributing_factors |-> <<"Retry amplification", "Burst traffic", "Timeout config">>,
     preventative_actions |-> <<"Rate-limit retries", "Tune circuit breakers", "Validate WAF rules">>,
     status |-> "active"],
    [id |-> "pa_007",
     created_date |-> ago(now, 1),
     updated_date |-> ago(now, 1),
     severity |-> "high",
     likelihood |-> 60,
     predicted_timeframe |-> "within 3-5 days",
     predicted_issue |-> "Database Connection Pool Exhaustion Risk",
     description |-> "Following the critical incident of pool exhaustion, the issue may recur due to ongoing heavy traffic and insufficient pool size post-remediation.",
     affected_systems |-> <<"PostgreSQL Primary", "Checkout API", "Payment Service", "Order Service">>,
     confidence_score |-> 60,
     contributing_factors |-> <<"Sustained traffic", "Pool sizing", "Slow query spikes">>,
     preventative_actions |-> <<"Increase pool", "Add query timeouts", "Improve caching">>,
     status |-> "active"],
    [id |-> "pa_008",
     created_date |-> ago(now, 1),
     updated_date |-> ago(now, 1),
     severity |-> "high",
     likelihood |-> 50,
     predicted_timeframe |-> "within 24 hours",
     predicted_issue |-> "Memory Leak Continuation in Authentication Service",
     description |-> "Existing memory leak could worsen if not resolved promptly, leading to service unavailability and affecting dependent systems.",
     affected_systems |-> <<"Auth Service", "Kubernetes Cluster">>,
     confidence_score |-> 80,
     contributing_factors |-> <<"Heap growth", "GC pressure", "Traffic peaks">>,
     preventative_actions |-> <<"Enable profiling", "Adjust limits", "Deploy patch">>,
     status |-> "active"],
    [id |-> "pa_009",
     created_date |-> ago(now, 1),
     updated_date |-> ago(now, 1),
     severity |-> "high",
     likelihood |-> 50,
     predicted_timeframe |-> "within 7 days",
     predicted_issue |-> "Potential Memory Leak in Payment Services",
     description |-> "Given prior incident involving memory leaks in Auth Service, similar issues may arise in Payment Services, especially with high transaction volumes expected.",
     affected_systems |-> <<"Payment Service", "PostgreSQL Primary", "Checkout API">>,
     confidence_score |-> 68,
     contributing_factors |-> <<"High volumes", "Gradual memory increase", "Shared libraries">>,
     preventative_actions |-> <<"Track RSS trends", "Add leak detection", "Canary release">>,
     status |-> "active"]>>

----------------------------------------------------------------------------
(* src/api/localDb.js *)

DefaultListLimit == 100
DefaultFilterLimit == 1000

nowIso == clock

\* crypto.randomUUID(): the n-th call returns an id of its own.
uuid(n) == "uuid_" \o ToString(n)

\* The blob stored under a localStorage key; absent until the first setItem.
NoBlob == [present |-> FALSE]

\* JSON.stringify(memory.db): tables and version, as one unit.
dbBlob(ts) == [present |-> TRUE, tables |-> ts, version |-> 1]

metaBlob(m) == [present |-> TRUE, meta |-> m]

initialDb == << >>

NoUser == [present |-> FALSE]

initialMeta == [seeded |-> FALSE, currentUser |-> NoUser]

\* loadJson(key, fallback): the parsed blob, or the fallback when there is no
\* storage or nothing is stored under the key.
loadDb(blob, storage) ==
  IF storage /\ blob.present THEN blob.tables ELSE initialDb

loadMeta(blob, storage) ==
  IF storage /\ blob.present THEN blob.meta ELSE initialMeta

\* A saveDb that writes the key only while the key is empty.
saveDb_FirstOnly(ts, blob, storage) ==
  IF storage /\ ~blob.present THEN dbBlob(ts) ELSE blob

\* saveDb(): saveJson(STORAGE_KEY, memory.db), a no-op without storage.
saveDb(ts, blob, storage) == IF storage THEN dbBlob(ts) ELSE blob

saveMeta(m, blob, storage) == IF storage THEN metaBlob(m) ELSE blob

Tbl(ts, t) == IF t \in DOMAIN ts THEN ts[t] ELSE << >>

\* ensureTable(table): creates the table, empty, when the store lacks it.
ensureTable(ts, t) ==
  IF t \in DOMAIN ts THEN ts
  ELSE [k \in (DOMAIN ts) \cup {t} |-> IF k = t THEN << >> ELSE ts[k]]

\* The comparator of sortByField: 0 when both values are identical (also when
\* both are undefined), else 1 when av > bv and -1 otherwise, negated for a
\* descending sort.  A comparison with undefined is false in JavaScript.
descOf(sort) == sort \in {"-created_date", "-updated_date", "-likelihood"}

fieldOf(sort) ==
  CASE sort = "-created_date" -> "created_date"
    [] sort = "-updated_date" -> "updated_date"
    [] sort = "-likelihood" -> "likelihood"
    [] OTHER -> sort

compareBy(a, b, sort) ==
  LET field == fieldOf(sort)
      ha == Has(a, field)
      hb == Has(b, field)
  IN  IF (~ha /\ ~hb) \/ (ha /\ hb /\ a[field] = b[field]) THEN 0
      ELSE (IF ha /\ hb /\ a[field] > b[field] THEN 1 ELSE -1)
             * (IF descOf(sort) THEN -1 ELSE 1)

\* Array.prototype.sort on the copy: a stable insertion sort, each element
\* placed by binary search after the elements it does not precede.
RECURSIVE insertPos(_, _, _, _, _)
insertPos(sorted, x, lo, hi, sort) ==
  IF lo >= hi THEN lo
  ELSE LET mid == lo + ((hi - lo) \div 2)
       IN  IF compareBy(x, sorted[mid + 1], sort) < 0
           THEN insertPos(sorted, x, lo, mid, sort)
           ELSE insertPos(sorted, x, mid + 1, hi, sort)

\* The elements lo..hi of items placed, one after the other, into sorted.
RECURSIVE sortRange(_, _, _, _, _)
sortRange(items, lo, hi, sorted, sort) ==
  IF lo > hi THEN sorted
  ELSE IF lo = hi
       THEN The({SubSeq(s, 1, p) \o <<items[lo]>> \o SubSeq(s, p + 1, Len(s)) :
                   s \in {sorted},
                   p \in {insertPos(sorted, items[lo], 0, Len(sorted), sort)}})
  ELSE The({sortRange(items, ((lo + hi) \div 2) + 1, hi, s, sort) :
              s \in {sortRange(items, lo, (lo + hi) \div 2, sorted, sort)}})

sortByField(items, sort) ==
  IF sort = "" THEN items
  ELSE The({sortRange(copy, 1, Len(copy), << >>, sort) : copy \in {items}})

slice(items, limit) ==
  SubSeq(items, 1, IF Len(items) < limit THEN Len(items) ELSE limit)

\* The fields that hold arrays, and those that hold objects: Array.isArray
\* and === tell them from scalars, and === on two objects is identity.
ArrayFields ==
  {"affected_systems", "tags", "related_systems", "contributing_factors",
   "preventative_actions", "timeline", "decisions", "what_went_well",
   "what_went_wrong", "action_items", "diagnostic_scripts"}

ObjectFields == {"ai_analysis", "details", "stakeholder_communication"}

\* The conditions of a where clause: a scalar, an array, an object such as
\* {$in: [...]}, or undefined.
Eq(v) == [kind |-> "scalar", v |-> v]
AnyOf(vs) == [kind |-> "array", vs |-> vs]
Obj == [kind |-> "object"]
Undef == [kind |-> "undefined"]

\* matchesWhere(record, where): every condition holds; undefined imposes
\* nothing, an array needs an array field that shares an element with it, and
\* anything else must be === the record's field.
matchesCond(record, k, c) ==
  CASE c.kind = "undefined" -> TRUE
    [] c.kind = "array" ->
         /\ Has(record, k)
         /\ k \in ArrayFields
         /\ \E x \in Range(c.vs) : x \in Range(record[k])
    [] c.kind = "object" -> FALSE
    [] OTHER ->
         /\ Has(record, k)
         /\ k \notin ArrayFields \cup ObjectFields
         /\ record[k] = c.v

\* A matchesWhere that is content with one condition that holds.
matchesWhere_Any(record, where) ==
  \E k \in DOMAIN where : matchesCond(record, k, where[k])

matchesWhere(record, where) ==
  \A k \in DOMAIN where : matchesCond(record, k, where[k])

NoWhere == << >>

SelectSeqBy(items, where) ==
  SelectSeq(items, LAMBDA r : matchesWhere(r, where))

\* db.list(table, {sort, limit})
list(ts, t, sort, limit) == slice(sortByField(Tbl(ts, t), sort), limit)

\* db.filter(table, {where, sort, limit})
filter(ts, t, where, sort, limit) ==
  slice(sortByField(SelectSeqBy(Tbl(ts, t), where), sort), limit)

\* The index findIndex returns, 0 for its -1.
findIndex(recs, id) ==
  LET hits == {i \in DOMAIN recs : Has(recs[i], "id") /\ recs[i].id = id}
  IN  IF hits = {} THEN 0 ELSE CHOOSE i \in hits : \A j \in hits : i <= j

\* What a call returned or threw, with the call's arguments.
Ret(op, t, id, arg, err, recs, saved) ==
  [op |-> op, table |-> t, id |-> id, arg |-> arg, err |-> err,
   recs |-> recs, saved |-> saved]

NotFound == "Record not found"

\* A store that reads the key again before each call, so that it works on
\* what the key holds rather than on its memory.
Store_Reloaded(ts, blob) ==
  [tables |-> IF blob.present THEN blob.tables ELSE ts, durableDb |-> blob]

\* The store a call works on: the tables in memory and the blob under the key.
Store(ts, blob) == [tables |-> ts, durableDb |-> blob]

After(ts, blob, ret) == [tables |-> ts, durableDb |-> blob, ret |-> ret]

\* A db.create that spreads the data first, so that the store's id and
\* timestamps override the caller's.
createRec_DataFirst(data, id, now) ==
  Spread(data, [id |-> id, created_date |-> now, updated_date |-> now])

\* The record db.create builds: id and both timestamps, then the data.
createRec(data, id, now) ==
  Spread([id |-> id, created_date |-> now, updated_date |-> now], data)

\* db.create(table, data): push the record, save the store, return the record.
db_create(S, t, data, id) ==
  LET rec == createRec(data, id, nowIso)
      ts == [ensureTable(S.tables, t) EXCEPT ![t] = Append(@, rec)]
  IN  After(ts, saveDb(ts, S.durableDb, hasStorage),
            Ret("create", t, "", data, "", <<rec>>, hasStorage))

\* A db.update that forgets to refresh updated_date.
updateRec_NoRefresh(rec, patch, now) == Spread(rec, patch)

\* The record db.update stores: the record, then the patch, then the time.
updateRec(rec, patch, now) ==
  Spread(Spread(rec, patch), [updated_date |-> now])

\* A db.update that inserts the patch as a new record when the id is unknown.
db_update_Upsert(S, t, id, patch) ==
  LET ts == ensureTable(S.tables, t)
      idx == findIndex(ts[t], id)
      rec == updateRec(IF idx = 0 THEN [id |-> id] ELSE ts[t][idx], patch, nowIso)
      ts2 == [ts EXCEPT ![t] = IF idx = 0 THEN Append(@, rec)
                                ELSE [@ EXCEPT ![idx] = rec]]
  IN  After(ts2, saveDb(ts2, S.durableDb, hasStorage),
            Ret("update", t, id, patch, "", <<rec>>, hasStorage))

\* db.update(table, id, patch): throws when no record has the id, else
\* replaces the first such record, saves the store and returns the record.
db_update(S, t, id, patch) ==
  LET ts == ensureTable(S.tables, t)
      idx == findIndex(ts[t], id)
  IN  IF idx = 0
      THEN After(ts, S.durableDb,
                 Ret("update", t, id, patch, NotFound, << >>, FALSE))
      ELSE LET rec == updateRec(ts[t][idx], patch, nowIso)
               ts2 == [ts EXCEPT ![t] = [@ EXCEPT ![idx] = rec]]
           IN  After(ts2, saveDb(ts2, S.durableDb, hasStorage),
                     Ret("update", t, id, patch, "", <<rec>>, hasStorage))

\* A db.remove that drops every record with the id, not only the first.
db_remove_All(S, t, id) ==
  LET ts == ensureTable(S.tables, t)
      idx == findIndex(ts[t], id)
  IN  IF idx = 0
      THEN After(ts, S.durableDb, Ret("remove", t, id, << >>, "", << >>, FALSE))
      ELSE LET ts2 == [ts EXCEPT ![t] =
                         SelectSeq(@, LAMBDA r : ~(Has(r, "id") /\ r.id = id))]
           IN  After(ts2, saveDb(ts2, S.durableDb, hasStorage),
                     Ret("remove", t, id, << >>, "", << >>, hasStorage))

\* db.remove(table, id): splices the first record with the id out and saves;
\* returns {ok: true} also when no record has the id.
db_remove(S, t, id) ==
  LET ts == ensureTable(S.tables, t)
      idx == findIndex(ts[t], id)
  IN  IF idx = 0
      THEN After(ts, S.durableDb, Ret("remove", t, id, << >>, "", << >>, FALSE))
      ELSE LET ts2 == [ts EXCEPT ![t] = SubSeq(@, 1, idx - 1)
                                          \o SubSeq(@, idx + 1, Len(@))]
           IN  After(ts2, saveDb(ts2, S.durableDb, hasStorage),
                     Ret("remove", t, id, << >>, "", << >>, hasStorage))

\* db.list(table, {sort, limit})
db_list(S, t, sort, limit) ==
  LET ts == ensureTable(S.tables, t)
  IN  After(ts, S.durableDb,
            Ret("list", t, "", << >>, "", list(ts, t, sort, limit), FALSE))

\* db.filter(table, {where, sort, limit})
db_filter(S, t, where, sort, limit) ==
  LET ts == ensureTable(S.tables, t)
  IN  After(ts, S.durableDb,
            Ret("filter", t, "", where, "",
                filter(ts, t, where, sort, limit), FALSE))

----------------------------------------------------------------------------
(* src/api/seed.js: ensureSeeded, run when the client module is loaded *)

SeedTables ==
  {"Incident", "KnowledgeBaseArticle", "AuditLog", "Decision",
   "PredictiveAlert", "PostIncidentReview", "IncidentAutomation"}

seedOf(t, now) ==
  CASE t = "Incident" -> seedIncidents(now)
    [] t = "KnowledgeBaseArticle" -> seedArticles(now)
    [] t = "AuditLog" -> seedAuditLog(now)
    [] t = "Decision" -> seedDecision(now)
    [] t = "PredictiveAlert" -> seedPredictiveAlert(now)
    [] OTHER -> << >>

\* dump.tables.X = [...] for the seven tables: whatever a table held is
\* replaced; a table of another name is kept.
seedTables(ts, now) ==
  [t \in (DOMAIN ts) \cup SeedTables |->
     IF t \in SeedTables THEN seedOf(t, now) ELSE ts[t]]

\* ensureSeeded(): nothing when the seeded flag is set, else the tables are
\* overwritten, the store is written to its key and the flag is set and saved.
\* Given the two blobs, yields the memory and the blobs after the page load.
ensureSeeded(blobDb, blobMeta, storage, now) ==
  LET m == loadMeta(blobMeta, storage)
      loaded == loadDb(blobDb, storage)
  IN  IF m.seeded
      THEN [tables |-> loaded, meta |-> m,
            durableDb |-> blobDb, durableMeta |-> blobMeta, seeded |-> FALSE]
      ELSE LET ts == seedTables(loaded, now)
               m2 == [m EXCEPT !.seeded = TRUE]
           IN  [tables |-> ts, meta |-> m2,
                durableDb |-> saveDb(ts, blobDb, storage),
                durableMeta |-> saveMeta(m2, blobMeta, storage),
                seeded |-> TRUE]

----------------------------------------------------------------------------
(* State after the first page load of a browser whose storage is empty *)

NoCreate == [present |-> FALSE]

NoView == [open |-> FALSE]

\* No second tab is open.
NoPeer == [open |-> FALSE]

FirstLoad ==
  /\ hasStorage \in BOOLEAN
  /\ clock = Now0
  /\ LET s == ensureSeeded(NoBlob, NoBlob, hasStorage, Now0)
     IN  /\ tables = s.tables
         /\ meta = s.meta
         /\ durableDb = s.durableDb
         /\ durableMeta = s.durableMeta
  /\ nextId = 0
  /\ result = Ret("load", "", "", << >>, "", << >>, hasStorage)
  /\ lastCreate = NoCreate
  /\ procs = << >>
  /\ view = NoView
  /\ lastAct = "load"
  /\ used = [calls |-> 0, starts |-> 0]

Init == FirstLoad /\ peer = NoPeer

\* The clock advances between calls; it never goes back.
Tick ==
  /\ clock < Now0 + MaxTicks
  /\ clock' = clock + 1
  /\ lastAct' = "tick"
  /\ UNCHANGED peer
  /\ UNCHANGED <<tables, meta, durableDb, durableMeta, hasStorage, nextId,
                 result, lastCreate, procs, view, used>>

----------------------------------------------------------------------------
(* The store contract: the entity layer's calls with any caller's inputs *)

StoreTables == {"Incident", "Runbook"}

CreateInputs(now) ==
  { [title |-> "Cache stampede", severity |-> "high", status |-> "new"],
    [id |-> "inc_001", title |-> "Clone"],
    [title |-> "Backdated", created_date |-> ago(now, 1),
     updated_date |-> ago(now, 1)] }

PatchInputs(now) ==
  { [status |-> "closed"],
    [created_date |-> now],
    [id |-> "inc_002"],
    [ai_analysis |-> [confidence_score |-> 50], updated_date |-> ago(now, 1)] }

QueryTables == {"Incident"}

WhereInputs == { [severity |-> Eq("critical")] }

TargetIds == {"inc_001", "missing"} \cup {uuid(n) : n \in 1..nextId}

AppUnchanged == UNCHANGED <<meta, durableMeta, hasStorage, procs, view>>

\* The history of the last db.create call.
Created(ret) ==
  [present |-> TRUE, table |-> ret.table, data |-> ret.arg, rec |-> ret.recs[1]]

\* entityFactory(t).create(data) = db.create(t, data)
EntityCreate(t, data) ==
  /\ used.calls < MaxCalls
  /\ LET r == db_create(Store(tables, durableDb), t, data, uuid(nextId + 1))
     IN  /\ tables' = r.tables
         /\ durableDb' = r.durableDb
         /\ result' = r.ret
         /\ lastCreate' = Created(r.ret)
  /\ nextId' = nextId + 1
  /\ used' = [used EXCEPT !.calls = @ + 1]
  /\ lastAct' = "db.create"
  /\ UNCHANGED peer
  /\ UNCHANGED clock
  /\ AppUnchanged

\* entityFactory(t).update(id, patch) = db.update(t, id, patch)
EntityUpdate(t, id, patch) ==
  /\ used.calls < MaxCalls
  /\ LET r == db_update(Store(tables, durableDb), t, id, patch)
     IN  /\ tables' = r.tables
         /\ durableDb' = r.durableDb
         /\ result' = r.ret
  /\ used' = [used EXCEPT !.calls = @ + 1]
  /\ lastAct' = "db.update"
  /\ UNCHANGED peer
  /\ UNCHANGED <<clock, nextId, lastCreate>>
  /\ AppUnchanged

\* entityFactory(t).delete(id) = db.remove(t, id)
EntityDelete(t, id) ==
  /\ used.calls < MaxCalls
  /\ LET r == db_remove(Store(tables, durableDb), t, id)
     IN  /\ tables' = r.tables
         /\ durableDb' = r.durableDb
         /\ result' = r.ret
  /\ used' = [used EXCEPT !.calls = @ + 1]
  /\ lastAct' = "db.remove"
  /\ UNCHANGED peer
  /\ UNCHANGED <<clock, nextId, lastCreate>>
  /\ AppUnchanged

\* entityFactory(t).list() with the default sort and limit
EntityList(t) ==
  /\ LET r == db_list(Store(tables, durableDb), t, "-created_date",
                      DefaultListLimit)
     IN  /\ tables' = r.tables
         /\ result' = r.ret
  /\ lastAct' = "db.list"
  /\ UNCHANGED peer
  /\ UNCHANGED <<durableDb, clock, nextId, lastCreate, used>>
  /\ AppUnchanged

\* entityFactory(t).filter(where) with the default sort and limit
EntityFilter(t, where) ==
  /\ LET r == db_filter(Store(tables, durableDb), t, where, "-created_date",
                        DefaultFilterLimit)
     IN  /\ tables' = r.tables
         /\ result' = r.ret
  /\ lastAct' = "db.filter"
  /\ UNCHANGED peer
  /\ UNCHANGED <<durableDb, clock, nextId, lastCreate, used>>
  /\ AppUnchanged

StoreNext ==
  \/ Tick
  \/ \E t \in StoreTables : \E data \in CreateInputs(clock) : EntityCreate(t, data)
  \/ \E t \in StoreTables : \E id \in TargetIds :
       \E patch \in PatchInputs(clock) : EntityUpdate(t, id, patch)
  \/ \E t \in StoreTables : \E id \in TargetIds : EntityDelete(t, id)
  \/ \E t \in QueryTables : EntityList(t)
  \/ \E t \in QueryTables : \E where \in WhereInputs : EntityFilter(t, where)

SpecStore == Init /\ [][StoreNext]_vars

----------------------------------------------------------------------------
(* JavaScript strings and arrays, as the client uses them *)

UpperCaseLetters == "ABCDEFGHIJKLMNOPQRSTUVWXYZ"

LowerCaseLetters == "abcdefghijklmnopqrstuvwxyz"

Letter(alphabet, i) == SubSeq(alphabet, i, i)

lowerOf == [c \in {Letter(UpperCaseLetters, i) : i \in 1..26} |->
              Letter(LowerCaseLetters,
                     CHOOSE i \in 1..26 : Letter(UpperCaseLetters, i) = c)]

upperOf == [c \in {Letter(LowerCaseLetters, i) : i \in 1..26} |->
              Letter(UpperCaseLetters,
                     CHOOSE i \in 1..26 : Letter(LowerCaseLetters, i) = c)]

\* The characters lo..hi of s, each mapped by the table.
RECURSIVE mapChars(_, _, _, _)
mapChars(s, table, lo, hi) ==
  IF lo > hi THEN ""
  ELSE IF lo = hi
       THEN LET c == SubSeq(s, lo, lo)
            IN  IF c \in DOMAIN table THEN table[c] ELSE c
  ELSE LET mid == (lo + hi) \div 2
       IN  mapChars(s, table, lo, mid) \o mapChars(s, table, mid + 1, hi)

\* String.prototype.toLowerCase / toUpperCase
toLowerCase(str) == The({mapChars(s, lowerOf, 1, Len(s)) : s \in {str}})

toUpperCase(str) == The({mapChars(s, upperOf, 1, Len(s)) : s \in {str}})

\* The positions at which k occurs in s.
Occurrences(s, k) ==
  {i \in 1..(Len(s) - Len(k) + 1) : SubSeq(s, i, i + Len(k) - 1) = k}

\* String.prototype.includes
includes(str, k) == The({Occurrences(s, t) # {} : s \in {str}, t \in {k}})

\* String.prototype.indexOf, counted from 1; 0 when k does not occur.
indexOf(str, k) ==
  The({(IF occ = {} THEN 0 ELSE CHOOSE i \in occ : \A j \in occ : i <= j) :
         occ \in {Occurrences(str, k)}})

\* Array.prototype.join
RECURSIVE join(_, _)
join(items, sep) ==
  IF items = << >> THEN ""
  ELSE IF Len(items) = 1 THEN items[1]
  ELSE items[1] \o sep \o join(Tail(items), sep)

\* `${record.field}` in a template literal.
Interpolate(r, f) == IF Has(r, f) THEN r[f] ELSE "undefined"

\* record.field || fallback, for a string field.
OrElse(r, f, fallback) == IF Has(r, f) /\ r[f] # "" THEN r[f] ELSE fallback

\* record.field || [], for an array field.
OrEmpty(r, f) == IF Has(r, f) THEN r[f] ELSE << >>

----------------------------------------------------------------------------
(* appClient: auth and the heuristic analyzer *)

demoUser ==
  [id |-> "user_demo", email |-> "demo.user@example.com",
   full_name |-> "Demo User"]

\* auth.me(): the saved user, or the demo user, which is then saved.
\* Yields the user and the meta and its blob after the call.
auth_me(m, blob, storage) ==
  IF m.currentUser # NoUser
  THEN [user |-> m.currentUser, meta |-> m, durableMeta |-> blob]
  ELSE LET m2 == [m EXCEPT !.currentUser = demoUser]
       IN  [user |-> demoUser, meta |-> m2,
            durableMeta |-> saveMeta(m2, blob, storage)]

\* clamp01, on hundredths
clamp01(n) == IF n < 0 THEN 0 ELSE IF n > 100 THEN 100 ELSE n

\* keywordScore(text, keywords): how many of the keywords the lower-cased
\* text includes.
keywordScore(text, keywords) ==
  The({Cardinality({i \in DOMAIN keywords : includes(t, keywords[i])}) :
         t \in {toLowerCase(text)}})

authKeywords == <<"auth", "login", "token", "sso">>

dbKeywords == <<"db", "database", "postgres", "mysql", "query", "timeout">>

apiKeywords == <<"api", "5xx", "gateway", "latency", "timeout">>

\* baseConf: { critical: 0.78, ... }[sev] ?? 0.66
baseConfOf(sev) ==
  CASE sev = "critical" -> 78
    [] sev = "high" -> 72
    [] sev = "medium" -> 66
    [] sev = "low" -> 60
    [] OTHER -> 66

\* A penalty that is never applied.
dataQualityPenaltyOf_Never(desc) == 0

\* desc && desc.length > 40 ? 0 : 0.08
dataQualityPenaltyOf(desc) == IF desc # "" /\ Len(desc) > 40 THEN 0 ELSE 8

\* systems.slice(0, 3).join(", ")
firstSystems(systems) ==
  join(SubSeq(systems, 1, IF Len(systems) < 3 THEN Len(systems) ELSE 3), ", ")

root_causes(systems, isAuth, isDb, isApi) ==
  << [cause |-> IF isDb THEN "Database resource saturation (connections / slow queries)"
                ELSE "Upstream dependency degradation (timeouts / elevated error rates)",
      probability |-> clamp01(45 + (IF isDb THEN 15 ELSE 0)),
      evidence |->
        << "Symptoms consistent with latency spikes and partial availability",
           IF systems # << >>
           THEN "Impacted systems: " \o firstSystems(systems)
           ELSE "Systems not specified" >>],
     [cause |-> IF isAuth THEN "Identity / token validation issue (SSO, cert, or token expiry)"
                ELSE "Recent deployment or configuration change introduced regression",
      probability |-> clamp01(30 + (IF isAuth THEN 20 ELSE 0)),
      evidence |-> << "Common failure mode for sudden onset incidents",
                      "Validate with change logs and auth/error traces" >>],
     [cause |-> IF isApi THEN "API gateway/routing misconfiguration or rate limiting"
                ELSE "Infrastructure/network instability",
      probability |-> clamp01(25 + (IF isApi THEN 15 ELSE 0)),
      evidence |-> << "Could present as widespread 5xx/4xx bursts",
                      "Validate with edge metrics, load balancer health, and dependency graph" >>] >>

\* The en dashes of the source ("5-10 minutes", "30-90 minutes", "1-3 hours")
\* are written as hyphens.
recommendations(sev, penalty) ==
  << [action |-> "Check dashboards for error rates, latency, and saturation (CPU/memory/DB connections).",
      priority |-> IF sev = "critical" \/ sev = "high" THEN "critical" ELSE "high",
      confidence |-> clamp01(85 - penalty),
      rationale |-> "Quickly confirms whether the incident is systemic or isolated and identifies bottlenecks.",
      risks |-> "Low risk; read-only investigation.",
      verification_steps |-> << "Confirm error rate and p95/p99 latency against baseline",
                                "Identify the top failing endpoint/service" >>],
     [action |-> "Validate recent changes (deployments/config) and consider rollback if correlated.",
      priority |-> IF sev = "critical" THEN "critical" ELSE "high",
      confidence |-> clamp01(72 - penalty),
      rationale |-> "Change correlation is frequently the fastest path to recovery.",
      risks |-> "Rollback may revert unrelated fixes; coordinate with release owner.",
      verification_steps |-> << "Compare start time vs deployment timeline",
                                "If rollback, monitor key KPIs for recovery within 5-10 minutes" >>],
     [action |-> "Run targeted diagnostics: dependency health checks, DB query sampling, and auth/token validation.",
      priority |-> IF sev = "low" THEN "medium" ELSE "high",
      confidence |-> clamp01(70 - penalty),
      rationale |-> "Narrows root cause and supports durable fix.",
      risks |-> "Some diagnostics may increase load if run broadly.",
      verification_steps |-> << "Run on a single canary instance first",
                                "Confirm no additional load/regression" >>] >>

\* The analysis, given the incident's title, description, lower-cased
\* severity, systems and keyword signals.
analysisOf(title, desc, sev, systems, isAuth, isDb, isApi) ==
  [summary |->
     title \o ": Preliminary assessment indicates " \o toUpperCase(sev)
       \o " impact with likely dependency or capacity-related degradation. Prioritize stabilization and change correlation, then validate the most probable root cause with targeted diagnostics.",
   root_causes |-> root_causes(systems, isAuth, isDb, isApi),
   recommendations |-> recommendations(sev, dataQualityPenaltyOf(desc)),
   estimated_recovery_time |->
     IF sev = "critical" THEN "30-90 minutes"
     ELSE IF sev = "high" THEN "1-3 hours" ELSE "Same day",
   confidence_score |-> clamp01(baseConfOf(sev) - dataQualityPenaltyOf(desc)),
   data_quality_notes |->
     IF desc # "" /\ Len(desc) > 40
     THEN "Sufficient context provided for a first-pass assessment. Add exact timestamps, impacted endpoints, and key logs for higher confidence."
     ELSE "Limited context provided. Add exact error messages, graphs (latency/error rate), and recent change details for a higher-confidence assessment.",
   limitations |-> << "Local analysis is heuristic and may not reflect production telemetry.",
                      "Assumes common incident patterns; verify against metrics and logs." >>]

\* buildAnalysisFromIncident(incident)
buildAnalysisFromIncident(incident) ==
  The({The({The({analysisOf(title, desc, sev, systems, isAuth, isDb, isApi) :
                   isAuth \in {keywordScore(text, authKeywords) > 0},
                   isDb \in {keywordScore(text, dbKeywords) > 0},
                   isApi \in {keywordScore(text, apiKeywords) > 0}}) :
              text \in {title \o " " \o desc},
              systems \in {OrEmpty(incident, "affected_systems")}}) :
         title \in {OrElse(incident, "title", "Incident")},
         desc \in {OrElse(incident, "description", OrElse(incident, "logs", ""))},
         sev \in {toLowerCase(OrElse(incident, "severity", "medium"))}})

\* buildAutomationForIncident: the owning team
\* A chain in which a later rule overrides an earlier one.
teamOf_LastWins(source, systems) ==
  IF \E i \in DOMAIN systems :
       \/ includes(toLowerCase(systems[i]), "auth")
       \/ includes(toLowerCase(systems[i]), "iam")
  THEN "Identity & Access"
  ELSE IF \E i \in DOMAIN systems : includes(toLowerCase(systems[i]), "db")
       THEN "Database Reliability"
  ELSE IF includes(source, "network") THEN "Network Operations"
  ELSE "Site Reliability Engineering"

teamOf(source, systems) ==
  IF includes(source, "network") THEN "Network Operations"
  ELSE IF \E i \in DOMAIN systems : includes(toLowerCase(systems[i]), "db")
       THEN "Database Reliability"
  ELSE IF \E i \in DOMAIN systems :
            \/ includes(toLowerCase(systems[i]), "auth")
            \/ includes(toLowerCase(systems[i]), "iam")
       THEN "Identity & Access"
  ELSE "Site Reliability Engineering"

diagnostic_scripts ==
  << [script_name |-> "Service health snapshot",
      description |-> "Collect a quick snapshot of key KPIs and dependency health.",
      status |-> "completed",
      command |-> "curl -s https://status.your-service.local/health | jq .",
      output |-> "{\n  \"status\": \"degraded\",\n  \"dependencies\": [{\"name\":\"db\",\"status\":\"warn\"}]\n}"],
     [script_name |-> "Error-rate sampling",
      description |-> "Sample recent errors to identify dominant failure mode.",
      status |-> "completed",
      command |-> "tail -n 200 /var/log/app/error.log | grep -E \"5..|timeout|auth\" | head",
      output |-> "timeout contacting upstream dependency\nrequest_id=...\n"] >>

stakeholder_communication(sev, team) ==
  [executive_summary |->
     IF sev = "critical"
     THEN "We are currently mitigating a high-impact service incident. Teams are engaged, and initial triage suggests a dependency/capacity issue. Next update in 30 minutes."
     ELSE "We are investigating a service degradation with limited scope. Initial triage is underway and we will provide updates as more information becomes available.",
   technical_details |->
     "Observed elevated error rates and latency for a subset of requests. Next steps: validate change correlation, inspect dependency health, and apply mitigation/rollback as needed.",
   customer_facing |->
     "Some users may experience intermittent issues. Our team is actively working to restore full service and will provide updates as we confirm stability.",
   internal_update |->
     "Triage in progress. Assigned team: " \o team
       \o ". Focus areas: metrics review, dependency checks, and mitigation actions."]

\* analysis?.confidence_score ?? 0.7
confidenceOr70(analysis) ==
  IF Has(analysis, "confidence_score") THEN analysis.confidence_score ELSE 70

\* buildAutomationForIncident(incident, analysis)
buildAutomationForIncident(incident, analysis) ==
  The({[assigned_team |-> team,
        assignment_rationale |->
          IF OrEmpty(incident, "affected_systems") # << >>
          THEN "Assignment based on affected systems: "
                 \o firstSystems(incident.affected_systems) \o "."
          ELSE "Assignment based on incident signals and standard ownership patterns.",
        automation_confidence |-> clamp01(confidenceOr70(analysis) + 10),
        diagnostic_scripts |-> diagnostic_scripts,
        stakeholder_communication |->
          stakeholder_communication(
            toLowerCase(OrElse(incident, "severity", "medium")), team)] :
         team \in {teamOf(toLowerCase(OrElse(incident, "source", "")),
                          OrEmpty(incident, "affected_systems"))}})

----------------------------------------------------------------------------
(* appClient: integrations.Core.InvokeLLM, and the prompt of CreateIncident *)

\* The prompt generateAIAnalysis builds from the incident.
promptOf(incident) ==
  "You are an expert Site Reliability Engineer analyzing an incident. \n    \nIncident Details:\n- Title: "
    \o Interpolate(incident, "title")
    \o "\n- Description: " \o OrElse(incident, "description", "Not provided")
    \o "\n- Severity: " \o Interpolate(incident, "severity")
    \o "\n- Source: " \o OrElse(incident, "source", "Unknown")
    \o "\n- Affected Systems: "
    \o (IF join(OrEmpty(incident, "affected_systems"), ", ") # ""
        THEN join(incident.affected_systems, ", ") ELSE "Not specified")
    \o "\n- Logs/Errors: " \o OrElse(incident, "logs", "No logs provided")
    \o "\n\nProvide a comprehensive analysis in JSON format with:\n1. A concise executive summary (2-3 sentences)\n2. Top 3 most likely root causes with probability scores (0-1) and supporting evidence\n3. 3-5 recommended actions with priority (critical/high/medium/low), confidence scores (0-1), rationale, potential risks, and verification steps\n4. Estimated time to recovery\n5. Overall confidence score (0-1) based on data quality\n6. Data quality notes (what information is missing or unclear)\n7. Limitations of this analysis (what could be wrong)"

\* \s and the line terminators of a regular expression, as far as the
\* prompt can hold them.
WhiteSpace == {" ", "\n", "\t", "\r"}

LineTerminators == {"\n", "\r"}

\* The least position from i on whose character is not in the set, or the
\* position after the end of s.
firstNotIn(s, i, chars) ==
  The({(CHOOSE j \in stops : \A k \in stops : j <= k) :
         stops \in {{j \in i..(Len(s) + 1) :
                       j = Len(s) + 1 \/ SubSeq(s, j, j) \notin chars}}})

firstIn(s, i, chars) ==
  The({(CHOOSE j \in stops : \A k \in stops : j <= k) :
         stops \in {{j \in i..(Len(s) + 1) :
                       j = Len(s) + 1 \/ SubSeq(s, j, j) \in chars}}})

\* /label\s*(.*)/i.exec(s)?.[1] || fallback, for a lower-case label, given s
\* and s in lower case.
captureAfter(s, lower, label, fallback) ==
  The({The({The({(IF at = 0 \/ captured = "" THEN fallback ELSE captured) :
                   captured \in
                     {SubSeq(s, from, firstIn(s, from, LineTerminators) - 1)}}) :
              from \in {firstNotIn(s, at + Len(label), WhiteSpace)}}) :
         at \in {indexOf(lower, label)}})

\* InvokeLLM({prompt}): the analysis of an incident made of the prompt.
InvokeLLM(prompt) ==
  The({buildAnalysisFromIncident(
         [title |-> captureAfter(p, lower, "title:", "Incident"),
          description |-> p,
          severity |-> captureAfter(p, lower, "severity:", "medium"),
          source |-> captureAfter(p, lower, "source:", "Unknown")]) :
         p \in {prompt}, lower \in {toLowerCase(prompt)}})

----------------------------------------------------------------------------
(* appClient: functions.invoke("generatePredictions") *)

\* An asynchronous call in flight is a record with its position pc (the await
\* it is suspended at) and its locals.  A step of the call runs from one await
\* to the next: the store call an await waits for has already run when the
\* await suspends, as the db methods have no await of their own, and the
\* awaited promise is already resolved.  The continuations therefore resume in
\* the order in which they were suspended: procs is that queue, and the call
\* at its head is the one that takes the next step.
AllIdle == procs = << >>

Me == Head(procs)

At(pc) == procs # << >> /\ Me.pc = pc

\* A caller starts a call, which runs up to its first await.
Start(rec) ==
  /\ Len(procs) < MaxProcs
  /\ procs' = The({Append(procs, r) : r \in {rec}})

\* The call at the head runs up to its next await, with its locals changed.
Suspend(locals) ==
  procs' = The({Append(Tail(procs), Spread(Me, l)) : l \in {locals}})

\* The call at the head runs to its end, or to an exception.
Finish == procs' = Tail(procs)

\* Every call in flight was started through appClient.functions.invoke by a
\* caller other than a page: the pages start a call from an event handler,
\* and the handler of the next event runs after the calls have completed.
OnlyInvocations == \A i \in DOMAIN procs : procs[i].by = "invoke"

\* const sample = [...]: the three canned alerts.
sample ==
  << [severity |-> "critical", likelihood |-> 72,
      predicted_timeframe |-> "within 48-72 hours",
      predicted_issue |-> "PostgreSQL Connection Pool Exhaustion During Peak Hours",
      description |-> "Pattern suggests repeat saturation during peak periods; mitigate before next traffic surge.",
      affected_systems |-> <<"PostgreSQL Primary", "Checkout API", "Payment Service", "Order Service">>,
      confidence_score |-> 72],
     [severity |-> "high", likelihood |-> 66,
      predicted_timeframe |-> "within 12-24 hours",
      predicted_issue |-> "API Gateway Latency Regression",
      description |-> "Early indicators show p99 rising and error-rate drift in gateway tier; validate retries and capacity.",
      affected_systems |-> <<"API Gateway", "Lambda Functions", "DynamoDB">>,
      confidence_score |-> 66],
     [severity |-> "high", likelihood |-> 58,
      predicted_timeframe |-> "within 24 hours",
      predicted_issue |-> "Authentication Service Memory Leak Continuation",
      description |-> "Memory usage trend could hit OOM threshold if not addressed; consider profiling and patch rollout.",
      affected_systems |-> <<"Auth Service", "Kubernetes Cluster">>,
      confidence_score |-> 58] >>

fallbackSystems ==
  <<"Customer Portal", "Notifications", "Data Pipeline", "Search", "Billing">>

\* incidents.flatMap((i) => i.affected_systems || []).filter(Boolean)
RECURSIVE commonSystems(_)
commonSystems(incidents) ==
  IF incidents = << >> THEN << >>
  ELSE (IF Has(Head(incidents), "affected_systems")
        THEN SelectSeq(Head(incidents).affected_systems, LAMBDA x : x # "")
        ELSE << >>)
         \o commonSystems(Tail(incidents))

\* const sys = commonSystems[0] || fallbackSystems[0]
extraSystem(incidents) ==
  LET c == commonSystems(incidents)
  IN  IF c # << >> THEN c[1] ELSE fallbackSystems[1]

\* The data of the i-th canned alert (i = 0, 1, 2), backdated by i hours.
sampleAlert(i, now) ==
  Spread(sample[i + 1],
         [contributing_factors |->
            <<"Recent incident patterns", "Traffic variability", "Resource pressure">>,
          preventative_actions |->
            <<"Validate dashboards", "Review recent changes", "Prepare rollback">>,
          status |-> "active",
          created_date |-> now - i * Hour,
          updated_date |-> now - i * Hour])

\* The data of the extra alert, backdated by five hours.
extraAlert(sys, now) ==
  [severity |-> "high", likelihood |-> 60,
   predicted_timeframe |-> "within 3-5 days",
   predicted_issue |-> "Elevated risk detected: " \o sys,
   description |-> "Recurring signals suggest elevated risk; monitor closely and validate mitigations.",
   affected_systems |-> <<sys>>,
   confidence_score |-> 60,
   contributing_factors |-> <<"Recurring alerts", "Recent change activity">>,
   preventative_actions |-> <<"Increase monitoring", "Validate thresholds", "Plan rollback">>,
   status |-> "active",
   created_date |-> now - 5 * Hour,
   updated_date |-> now - 5 * Hour]

\* The store after a call, and the history of the call.
Apply(r) ==
  /\ tables' = r.tables
  /\ durableDb' = r.durableDb
  /\ result' = r.ret
  /\ lastCreate' = IF r.ret.op = "create" THEN Created(r.ret) ELSE lastCreate
  /\ nextId' = IF r.ret.op = "create" THEN nextId + 1 ELSE nextId

\* invoke("generatePredictions") up to its first await: the incident query.
PredictionsStart ==
  /\ OnlyInvocations
  /\ LET r == db_list(Store(tables, durableDb), "Incident", "-created_date", 50)
     IN  /\ Apply(r)
         /\ Start([pc |-> "gp_sample", by |-> "invoke", i |-> 0, now |-> 0,
                   sys |-> extraSystem(r.ret.recs)])
  /\ lastAct' = "generatePredictions"
  /\ UNCHANGED peer
  /\ UNCHANGED <<meta, durableMeta, hasStorage, clock, view>>

\* The loop over the canned alerts: const now = new Date() before its first
\* turn, then one db.create per turn.
PredictionsSample ==
  /\ At("gp_sample")
  /\ LET now == IF Me.i = 0 THEN clock ELSE Me.now
         r == db_create(Store(tables, durableDb), "PredictiveAlert",
                        sampleAlert(Me.i, now), uuid(nextId + 1))
     IN  /\ Apply(r)
         /\ Suspend(IF Me.i + 1 < Len(sample)
                    THEN [i |-> Me.i + 1, now |-> now]
                    ELSE [pc |-> "gp_extra", now |-> now])
  /\ lastAct' = "generatePredictions"
  /\ UNCHANGED peer
  /\ UNCHANGED <<meta, durableMeta, hasStorage, clock, view, used>>

\* The extra alert, and the return of the invocation.
PredictionsExtra ==
  /\ At("gp_extra")
  /\ LET r == db_create(Store(tables, durableDb), "PredictiveAlert",
                        extraAlert(Me.sys, Me.now), uuid(nextId + 1))
     IN  Apply(r)
  /\ Finish
  /\ lastAct' = "generatePredictions"
  /\ UNCHANGED peer
  /\ UNCHANGED <<meta, durableMeta, hasStorage, clock, view, used>>

----------------------------------------------------------------------------
(* The Predictions page used over and over: each click on "generate" adds    *)
(* four alerts to the table.                                                 *)

VolumeStart ==
  /\ AllIdle
  /\ Len(Tbl(tables, "PredictiveAlert")) + Len(sample) + 1 <= MaxVolume
  /\ PredictionsStart
  /\ UNCHANGED used

VolumeTick == AllIdle /\ Tick

VolumeNext ==
  \/ VolumeStart
  \/ PredictionsSample
  \/ PredictionsExtra
  \/ VolumeTick

\* A browser with storage.
VolumeInit == Init /\ hasStorage

SpecVolume == VolumeInit /\ [][VolumeNext]_vars

----------------------------------------------------------------------------
(* The steps of the asynchronous calls *)

\* {a: r.a, b: r.b}: the fields that are defined.
Pick(r, fields) == [k \in (DOMAIN r) \cap fields |-> r[k]]

\* db.filter(table, {where}) with the default sort and limit.
filterBy(S, t, where) ==
  db_filter(S, t, where, "-created_date", DefaultFilterLimit)

\* A step that calls nothing of the store.
NoCall == UNCHANGED <<tables, durableDb, result, lastCreate, nextId>>

\* What a step of a call in flight leaves alone.
StepFrame == UNCHANGED <<meta, durableMeta, hasStorage, clock, view, used>>

\* A caller's call counts against the bound on the calls of a behaviour.
CountStart ==
  /\ used.starts < MaxStarts
  /\ used' = [used EXCEPT !.starts = @ + 1]

\* The audit record a workflow writes.
auditEntry(incident_id, action_type, actor, details) ==
  [incident_id |-> incident_id, action_type |-> action_type,
   actor |-> actor, details |-> details]

----------------------------------------------------------------------------
(* pages/CreateIncident: handleSubmit and generateAIAnalysis *)

\* What the form of the page submits.
FormInputs ==
  { [title |-> "Checkout API latency spike",
     description |-> "p99 latency above 2s on the checkout gateway since the last deployment",
     severity |-> "critical", source |-> "Datadog",
     affected_systems |-> <<"Checkout API", "Orders DB">>],
    [title |-> "Login page slow", description |-> "", severity |-> "low",
     source |-> "", affected_systems |-> << >>] }

\* handleSubmit(formData) up to its first await: the incident is created.
SubmitIncident(formData) ==
  /\ AllIdle
  /\ CountStart
  /\ \E r \in {db_create(Store(tables, durableDb), "Incident",
                         Spread(formData, [status |-> "analyzing"]),
                         uuid(nextId + 1))} :
       /\ Apply(r)
       /\ Start([pc |-> "hs_me", by |-> "page", formData |-> formData,
                 incident |-> r.ret.recs[1]])
  /\ view' = NoView
  /\ lastAct' = "handleSubmit"
  /\ UNCHANGED peer
  /\ UNCHANGED <<meta, durableMeta, hasStorage, clock>>

\* (await appClient.auth.me()).email
SubmitMe ==
  /\ At("hs_me")
  /\ \E a \in {auth_me(meta, durableMeta, hasStorage)} :
       /\ meta' = a.meta
       /\ durableMeta' = a.durableMeta
       /\ Suspend([pc |-> "hs_audit", email |-> a.user.email])
  /\ NoCall
  /\ lastAct' = "handleSubmit"
  /\ UNCHANGED peer
  /\ UNCHANGED <<hasStorage, clock, view, used>>

\* The audit record of the creation.
SubmitAudit ==
  /\ At("hs_audit")
  /\ \E r \in {db_create(Store(tables, durableDb), "AuditLog",
                         auditEntry(Me.incident.id, "incident_created", Me.email,
                                    Pick(Me.formData, {"severity", "source"})),
                         uuid(nextId + 1))} :
       Apply(r)
  /\ Suspend([pc |-> "hs_analyze"])
  /\ lastAct' = "handleSubmit"
  /\ UNCHANGED peer
  /\ StepFrame

\* generateAIAnalysis(incident) up to its first await, the answer of
\* InvokeLLM; handleSubmit then navigates to the incident and returns.
SubmitAnalyze ==
  /\ At("hs_analyze")
  /\ \E analysis \in {InvokeLLM(promptOf(Me.incident))} :
       Suspend([pc |-> "ga_update", analysis |-> analysis])
  /\ NoCall
  /\ lastAct' = "generateAIAnalysis"
  /\ UNCHANGED peer
  /\ StepFrame

\* An analysis patch that starts the work on the incident at once.
analysisPatch_Started(analysis) ==
  [ai_analysis |-> analysis, status |-> "in_progress"]

\* An analysis patch that sets the status and leaves the analysis out.
analysisPatch_StatusOnly(analysis) == [status |-> "awaiting_approval"]

\* What generateAIAnalysis stores in the incident.
analysisPatch(analysis) ==
  [ai_analysis |-> analysis, status |-> "awaiting_approval"]

AnalysisUpdate ==
  /\ At("ga_update")
  /\ \E r \in {db_update(Store(tables, durableDb), "Incident", Me.incident.id,
                         analysisPatch(Me.analysis))} :
       /\ Apply(r)
       /\ IF r.ret.err # "" THEN Finish ELSE Suspend([pc |-> "ga_audit"])
  /\ lastAct' = "generateAIAnalysis"
  /\ UNCHANGED peer
  /\ StepFrame

AnalysisAudit ==
  /\ At("ga_audit")
  /\ \E r \in {db_create(Store(tables, durableDb), "AuditLog",
                         auditEntry(Me.incident.id, "ai_analysis_generated", "SYSTEM",
                                    Pick(Me.analysis, {"confidence_score"})),
                         uuid(nextId + 1))} :
       Apply(r)
  /\ Suspend([pc |-> "ga_automate"])
  /\ lastAct' = "generateAIAnalysis"
  /\ UNCHANGED peer
  /\ StepFrame

----------------------------------------------------------------------------
(* appClient: functions.invoke("automateIncidentResponse") *)

IncidentIds == {r.id : r \in Range(Tbl(tables, "Incident"))}

\* The incidents whose page is opened: one of the seed, and the ones created.
DetailIds == {"inc_001"} \cup (IncidentIds \cap {uuid(n) : n \in 1..nextId})

\* The incidents the callers of functions.invoke name: those, and one that
\* does not exist.
InvokeIds == DetailIds \cup {"inc_404"}

\* The locals of an invocation after its first await: the incidents of the id.
invocation(pc, by, incident_id, found) ==
  [pc |-> pc, by |-> by, incident_id |-> incident_id, found |-> found]

\* invoke("automateIncidentResponse", {incident_id}) up to its first await:
\* the incident query.
InvokeAutomate(incident_id) ==
  /\ OnlyInvocations
  /\ CountStart
  /\ \E r \in {filterBy(Store(tables, durableDb), "Incident",
                        [id |-> Eq(incident_id)])} :
       /\ Apply(r)
       /\ Start(invocation("air_existing", "invoke", incident_id, r.ret.recs))
  /\ lastAct' = "automateIncidentResponse"
  /\ UNCHANGED peer
  /\ UNCHANGED <<meta, durableMeta, hasStorage, clock, view>>

\* The same, called by generateAIAnalysis.
AnalysisAutomate ==
  /\ At("ga_automate")
  /\ \E r \in {filterBy(Store(tables, durableDb), "Incident",
                        [id |-> Eq(Me.incident.id)])} :
       /\ Apply(r)
       /\ Suspend(invocation("air_existing", Me.by, Me.incident.id, r.ret.recs))
  /\ lastAct' = "automateIncidentResponse"
  /\ UNCHANGED peer
  /\ StepFrame

\* incident.ai_analysis || buildAnalysisFromIncident(incident)
analysisFor(incident) ==
  IF Has(incident, "ai_analysis") THEN incident.ai_analysis
  ELSE buildAnalysisFromIncident(incident)

\* No incident: the invocation returns.  Else the automation is built and
\* the automation of the incident is looked up.
AutomateExisting ==
  /\ At("air_existing")
  /\ IF Me.found = << >>
     THEN NoCall /\ Finish
     ELSE \E r \in {filterBy(Store(tables, durableDb), "IncidentAutomation",
                             [incident_id |-> Eq(Me.incident_id)])} :
            /\ Apply(r)
            /\ Suspend([pc |-> "air_upsert", existing |-> r.ret.recs,
                        automation |->
                          buildAutomationForIncident(Me.found[1],
                                                     analysisFor(Me.found[1]))])
  /\ lastAct' = "automateIncidentResponse"
  /\ UNCHANGED peer
  /\ StepFrame

\* existing ? db.update(t, existing.id, data)
\*          : db.create(t, {incident_id, ...data})
upsert(S, t, existing, incident_id, data, id) ==
  IF existing # << >> THEN db_update(S, t, existing[1].id, data)
  ELSE db_create(S, t, Spread([incident_id |-> incident_id], data), id)

AutomateUpsert ==
  /\ At("air_upsert")
  /\ \E r \in {upsert(Store(tables, durableDb), "IncidentAutomation",
                      Me.existing, Me.incident_id, Me.automation,
                      uuid(nextId + 1))} :
       /\ Apply(r)
       /\ IF r.ret.err # "" THEN Finish
          ELSE Suspend([pc |-> "air_audit", record |-> r.ret.recs[1]])
  /\ lastAct' = "automateIncidentResponse"
  /\ UNCHANGED peer
  /\ StepFrame

AutomateAudit ==
  /\ At("air_audit")
  /\ \E r \in {db_create(Store(tables, durableDb), "AuditLog",
                         auditEntry(Me.incident_id, "automation_generated", "SYSTEM",
                                    [assigned_team |-> Me.record.assigned_team,
                                     confidence |-> Me.record.automation_confidence]),
                         uuid(nextId + 1))} :
       Apply(r)
  /\ Finish
  /\ lastAct' = "automateIncidentResponse"
  /\ UNCHANGED peer
  /\ StepFrame

----------------------------------------------------------------------------
(* appClient: functions.invoke("generatePostIncidentReview") *)

\* invoke("generatePostIncidentReview", {incident_id}) up to its first await.
InvokeReview(incident_id) ==
  /\ OnlyInvocations
  /\ CountStart
  /\ \E r \in {filterBy(Store(tables, durableDb), "Incident",
                        [id |-> Eq(incident_id)])} :
       /\ Apply(r)
       /\ Start(invocation("rv_logs", "invoke", incident_id, r.ret.recs))
  /\ lastAct' = "generatePostIncidentReview"
  /\ UNCHANGED peer
  /\ UNCHANGED <<meta, durableMeta, hasStorage, clock, view>>

\* No incident: the invocation returns.  Else the audit records of the
\* incident are read, oldest first.
ReviewLogs ==
  /\ At("rv_logs")
  /\ IF Me.found = << >>
     THEN NoCall /\ Finish
     ELSE \E r \in {db_filter(Store(tables, durableDb), "AuditLog",
                              [incident_id |-> Eq(Me.incident_id)],
                              "created_date", DefaultFilterLimit)} :
            /\ Apply(r)
            /\ Suspend([pc |-> "rv_decisions", logs |-> r.ret.recs])
  /\ lastAct' = "generatePostIncidentReview"
  /\ UNCHANGED peer
  /\ StepFrame

ReviewDecisions ==
  /\ At("rv_decisions")
  /\ \E r \in {filterBy(Store(tables, durableDb), "Decision",
                        [incident_id |-> Eq(Me.incident_id)])} :
       /\ Apply(r)
       /\ Suspend([pc |-> "rv_existing", decisions |-> r.ret.recs])
  /\ lastAct' = "generatePostIncidentReview"
  /\ UNCHANGED peer
  /\ StepFrame

\* {a: r.x, b: r.y}: the record's fields under other names, the undefined
\* ones left out.
Renamed(r, names) ==
  [k \in {n \in DOMAIN names : Has(r, names[n])} |-> r[names[k]]]

\* incident.ai_analysis?.summary || buildAnalysisFromIncident(incident).summary
summaryOf(incident) ==
  IF Has(incident, "ai_analysis") /\ Has(incident.ai_analysis, "summary")
       /\ incident.ai_analysis.summary # ""
  THEN incident.ai_analysis.summary
  ELSE buildAnalysisFromIncident(incident).summary

customerImpactOf(incident) ==
  IF Has(incident, "severity") /\ incident.severity = "critical" THEN "High"
  ELSE IF Has(incident, "severity") /\ incident.severity = "high" THEN "Moderate"
  ELSE "Low"

\* The review of an incident, its audit records and its decisions.
reviewOf(incident_id, incident, logs, decisions) ==
  [incident_id |-> incident_id,
   executive_summary |-> summaryOf(incident),
   customer_impact |-> customerImpactOf(incident),
   timeline |->
     [i \in DOMAIN logs |->
        Renamed(logs[i], [at |-> "created_date", action |-> "action_type",
                          details |-> "details"])],
   decisions |->
     [i \in DOMAIN decisions |->
        Renamed(decisions[i],
                [action |-> "recommendation_action", decision |-> "decision",
                 reason |-> "decision_reason"])],
   what_went_well |-> << "Rapid triage and clear ownership",
                         "Audit trail captured key actions" >>,
   what_went_wrong |-> << "Limited early signals / missing data",
                          "Dependency coupling increased blast radius" >>,
   action_items |->
     << [owner |-> "SRE",
         item |-> "Add alerting for leading indicators (latency/queue depth)",
         due |-> "2 weeks"],
        [owner |-> "App Team",
         item |-> "Document rollback steps and add runbook",
         due |-> "1 week"] >>]

\* The review is built and the review of the incident is looked up.
ReviewExisting ==
  /\ At("rv_existing")
  /\ \E r \in {filterBy(Store(tables, durableDb), "PostIncidentReview",
                        [incident_id |-> Eq(Me.incident_id)])} :
       /\ Apply(r)
       /\ Suspend([pc |-> "rv_upsert", existing |-> r.ret.recs,
                   review |-> reviewOf(Me.incident_id, Me.found[1], Me.logs,
                                       Me.decisions)])
  /\ lastAct' = "generatePostIncidentReview"
  /\ UNCHANGED peer
  /\ StepFrame

ReviewUpsert ==
  /\ At("rv_upsert")
  /\ \E r \in {upsert(Store(tables, durableDb), "PostIncidentReview",
                      Me.existing, Me.incident_id, Me.review, uuid(nextId + 1))} :
       /\ Apply(r)
       /\ IF r.ret.err # "" THEN Finish
          ELSE Suspend([pc |-> "rv_audit", record |-> r.ret.recs[1]])
  /\ lastAct' = "generatePostIncidentReview"
  /\ UNCHANGED peer
  /\ StepFrame

ReviewAudit ==
  /\ At("rv_audit")
  /\ \E r \in {db_create(Store(tables, durableDb), "AuditLog",
                         auditEntry(Me.incident_id, "post_incident_review_generated",
                                    "SYSTEM", [review_id |-> Me.record.id]),
                         uuid(nextId + 1))} :
       Apply(r)
  /\ Finish
  /\ lastAct' = "generatePostIncidentReview"
  /\ UNCHANGED peer
  /\ StepFrame

----------------------------------------------------------------------------
(* appClient: functions.invoke("generateArticleFromIncident"),               *)
(* ("suggestKnowledgeArticles") and ("generatePredictions")                  *)

InvokeArticle(incident_id) ==
  /\ OnlyInvocations
  /\ CountStart
  /\ \E r \in {filterBy(Store(tables, durableDb), "Incident",
                        [id |-> Eq(incident_id)])} :
       /\ Apply(r)
       /\ Start(invocation("ar_create", "invoke", incident_id, r.ret.recs))
  /\ lastAct' = "generateArticleFromIncident"
  /\ UNCHANGED peer
  /\ UNCHANGED <<meta, durableMeta, hasStorage, clock, view>>

\* "- **cause** (p=NN%)" for each root cause, one per line
causeLines(causes) ==
  join([i \in DOMAIN causes |->
          "- **" \o causes[i].cause \o "** (p="
            \o ToString(causes[i].probability) \o "%)"], "\n")

\* "- **PRIORITY**: action" for each recommendation, one per line
actionLines(recs) ==
  join([i \in DOMAIN recs |->
          "- **" \o toUpperCase(recs[i].priority) \o "**: " \o recs[i].action],
       "\n")

\* The article written from an incident and its analysis.
articleOf(incident, analysis) ==
  [title |-> "Runbook: " \o Interpolate(incident, "title"),
   summary |-> analysis.summary,
   content |->
     "## Summary\n" \o analysis.summary \o "\n\n## Likely root causes\n"
       \o causeLines(analysis.root_causes) \o "\n\n## Recommended actions\n"
       \o actionLines(analysis.recommendations)
       \o "\n\n## Verification\n- Monitor error rate and latency\n- Confirm recovery in customer workflows\n",
   tags |-> <<incident.severity>>
              \o SubSeq(OrEmpty(incident, "affected_systems"), 1,
                        IF Len(OrEmpty(incident, "affected_systems")) < 3
                        THEN Len(OrEmpty(incident, "affected_systems")) ELSE 3),
   category |-> "runbook",
   status |-> "draft"]

TypeError == "TypeError"

\* No incident: the invocation returns.  An analysis without root causes or
\* recommendations: analysis.root_causes.map throws.  Else the article is
\* created.
ArticleCreate ==
  /\ At("ar_create")
  /\ IF Me.found = << >>
     THEN NoCall
     ELSE IF ~ ({"root_causes", "recommendations"}
                  \subseteq DOMAIN analysisFor(Me.found[1]))
     THEN /\ result' = Ret("invoke", "KnowledgeBaseArticle", Me.incident_id,
                           << >>, TypeError, << >>, FALSE)
          /\ UNCHANGED <<tables, durableDb, lastCreate, nextId>>
     ELSE \E r \in {db_create(Store(tables, durableDb), "KnowledgeBaseArticle",
                              articleOf(Me.found[1], analysisFor(Me.found[1])),
                              uuid(nextId + 1))} :
            Apply(r)
  /\ Finish
  /\ lastAct' = "generateArticleFromIncident"
  /\ UNCHANGED peer
  /\ StepFrame

\* \w of a regular expression without the unicode flag.
WordChars ==
  LET cs == LowerCaseLetters \o UpperCaseLetters \o "0123456789_"
  IN  {SubSeq(cs, i, i) : i \in 1..Len(cs)}

\* Whether the characters of str are word characters.
wordAt(str) == [i \in 1..Len(str) |-> SubSeq(str, i, i) \in WordChars]

\* The k-th least element of a set of numbers.
nth(S, k) == CHOOSE i \in S : Cardinality({h \in S : h <= i}) = k

\* str.split(/\W+/).filter(Boolean): the runs of word characters, in order.
splitWords(str) ==
  The({The({[k \in 1..Cardinality(starts) |->
               SubSeq(str, nth(starts, k), nth(ends, k))] :
              starts \in {{i \in DOMAIN w : w[i] /\ (i = 1 \/ ~w[i - 1])}},
              ends \in {{i \in DOMAIN w :
                           w[i] /\ (i = Len(w) \/ ~w[i + 1])}}}) :
         w \in {wordAt(str)}})

\* `${incident.title || ""} ${incident.description || ""}
\*  ${(incident.affected_systems || []).join(" ")}`.toLowerCase()
textOf(incident) ==
  toLowerCase(OrElse(incident, "title", "") \o " "
                \o OrElse(incident, "description", "") \o " "
                \o join(OrEmpty(incident, "affected_systems"), " "))

\* `${a.title || ""} ${a.summary || ""} ${(a.tags || []).join(" ")}`
\*   .toLowerCase()
hayOf(a) ==
  toLowerCase(OrElse(a, "title", "") \o " " \o OrElse(a, "summary", "") \o " "
                \o join(OrEmpty(a, "tags"), " "))

\* A score over all the tokens of the incident.
scoreOf_AllTokens(tokens, hay) ==
  Cardinality({i \in DOMAIN tokens :
                 Len(tokens[i]) >= 4 /\ includes(hay, tokens[i])})

\* The first 25 tokens that have at least 4 characters and occur in hay,
\* counted.
scoreOf(tokens, hay) ==
  Cardinality({i \in 1..(IF Len(tokens) < 25 THEN Len(tokens) ELSE 25) :
                 \E token \in {tokens[i]} :
                   Len(token) >= 4 /\ includes(hay, token)})

\* relevance > 0.7 ? ... : relevance > 0.4 ? ... : "Weak match"
reasonOf(relevance) ==
  IF relevance > 70 THEN "Strong tag/title overlap"
  ELSE IF relevance > 40 THEN "Partial keyword match"
  ELSE "Weak match"

\* What articles.map gives for an article; clamp01(score / 10) in hundredths.
suggestionOf(a, tokens) ==
  The({[article |-> a, relevance_score |-> relevance,
        reason |-> reasonOf(relevance)] :
         relevance \in {The({clamp01(scoreOf(tokens, hay) * 10) :
                               hay \in {hayOf(a)}})}})

\* .sort((a, b) => b.relevance_score - a.relevance_score): a stable sort,
\* the greater relevance first.
byRelevance(ss) ==
  [k \in 1..Len(ss) |->
     ss[CHOOSE i \in 1..Len(ss) :
          Cardinality({j \in 1..Len(ss) :
                         \/ ss[j].relevance_score > ss[i].relevance_score
                         \/ /\ ss[j].relevance_score = ss[i].relevance_score
                            /\ j < i}) = k - 1]]

\* articles.map(..).filter(s => s.relevance_score >= 0.25).sort(..).slice(0, 6)
suggestionsOf(incident, articles) ==
  The({The({SubSeq(sorted, 1, IF Len(sorted) < 6 THEN Len(sorted) ELSE 6) :
              sorted \in {byRelevance(
                            SelectSeq([i \in DOMAIN articles |->
                                         suggestionOf(articles[i], tokens)],
                                      LAMBDA s : s.relevance_score >= 25))}}) :
         tokens \in {splitWords(textOf(incident))}})

InvokeSuggest(incident_id) ==
  /\ OnlyInvocations
  /\ CountStart
  /\ \E r \in {filterBy(Store(tables, durableDb), "Incident",
                        [id |-> Eq(incident_id)])} :
       /\ Apply(r)
       /\ Start(invocation("sg_articles", "invoke", incident_id, r.ret.recs))
  /\ lastAct' = "suggestKnowledgeArticles"
  /\ UNCHANGED peer
  /\ UNCHANGED <<meta, durableMeta, hasStorage, clock, view>>

\* The articles are read.  No incident: the invocation returns no
\* suggestions.  Else the suggestions are computed from the articles and
\* returned; nothing is stored.
SuggestArticles ==
  /\ At("sg_articles")
  /\ \E r \in {db_list(Store(tables, durableDb), "KnowledgeBaseArticle",
                       "-created_date", 200)} :
       /\ tables' = r.tables
       /\ durableDb' = r.durableDb
       /\ result' = Ret("invoke", "KnowledgeBaseArticle", Me.incident_id,
                        << >>, "",
                        IF Me.found = << >> THEN << >>
                        ELSE suggestionsOf(Me.found[1], r.ret.recs),
                        FALSE)
       /\ UNCHANGED <<lastCreate, nextId>>
  /\ Finish
  /\ lastAct' = "suggestKnowledgeArticles"
  /\ UNCHANGED peer
  /\ StepFrame

InvokePredictions == CountStart /\ PredictionsStart

----------------------------------------------------------------------------
(* pages/IncidentDetail *)

\* The page is opened on an incident: auth.me() gives the current user and
\* the incident query gives the incident.
OpenDetail(incidentId) ==
  /\ AllIdle
  /\ ~ (view.open /\ view.incidentId = incidentId)
  /\ \E a \in {auth_me(meta, durableMeta, hasStorage)},
        r \in {filterBy(Store(tables, durableDb), "Incident",
                        [id |-> Eq(incidentId)])} :
       /\ meta' = a.meta
       /\ durableMeta' = a.durableMeta
       /\ Apply(r)
       /\ view' = [open |-> TRUE, incidentId |-> incidentId,
                   incident |-> r.ret.recs, email |-> a.user.email]
  /\ lastAct' = "openDetail"
  /\ UNCHANGED peer
  /\ UNCHANGED <<hasStorage, clock, procs, used>>

\* onSuccess: the queries of the page are invalidated and the incident is
\* read again; S is the store after the mutation.
Refetched(S) ==
  [view EXCEPT !.incident =
     filterBy(S, "Incident", [id |-> Eq(view.incidentId)]).ret.recs]

\* incident?.ai_analysis?.recommendations, or none
recommendationsOf(incident) ==
  IF incident # << >> /\ Has(incident[1], "ai_analysis")
       /\ Has(incident[1].ai_analysis, "recommendations")
  THEN incident[1].ai_analysis.recommendations
  ELSE << >>

\* What the decision dialog submits for a recommendation.
DecisionInputs(rec) ==
  { [recommendation_action |-> rec.action, decision |-> "approved",
     decision_reason |-> "Agreed with the analysis"],
    [recommendation_action |-> rec.action, decision |-> "rejected",
     decision_reason |-> "Too risky during peak hours"] }

\* submitDecision(decisionData) up to its first await: the decision is
\* created.  The page's incident and user are those of its last render.
SubmitDecision(decisionData) ==
  /\ AllIdle
  /\ view.open
  /\ CountStart
  /\ \E r \in {db_create(Store(tables, durableDb), "Decision",
                         Spread(decisionData,
                                [incident_id |-> view.incidentId,
                                 decided_by |-> view.email,
                                 decided_at |-> clock]),
                         uuid(nextId + 1))} :
       /\ Apply(r)
       /\ Start([pc |-> "sd_audit", by |-> "page", decisionData |-> decisionData,
                 totalRecs |-> Len(recommendationsOf(view.incident))])
  /\ lastAct' = "submitDecision"
  /\ UNCHANGED peer
  /\ UNCHANGED <<meta, durableMeta, hasStorage, clock, view>>

\* The audit record of the decision.
decisionAudit(incidentId, email, decisionData) ==
  auditEntry(incidentId, "decision_made", email,
             Renamed(decisionData,
                     [action |-> "recommendation_action", decision |-> "decision",
                      reason |-> "decision_reason"]))

DecisionAudit ==
  /\ At("sd_audit")
  /\ \E r \in {db_create(Store(tables, durableDb), "AuditLog",
                         decisionAudit(view.incidentId, view.email,
                                       Me.decisionData),
                         uuid(nextId + 1))} :
       Apply(r)
  /\ Suspend([pc |-> "sd_count"])
  /\ lastAct' = "submitDecision"
  /\ UNCHANGED peer
  /\ StepFrame

DecisionCount ==
  /\ At("sd_count")
  /\ \E r \in {filterBy(Store(tables, durableDb), "Decision",
                        [incident_id |-> Eq(view.incidentId)])} :
       /\ Apply(r)
       /\ Suspend([pc |-> "sd_status", allDecisions |-> Len(r.ret.recs)])
  /\ lastAct' = "submitDecision"
  /\ UNCHANGED peer
  /\ StepFrame

\* if (allDecisions.length >= totalRecs) the incident is in progress; then
\* onSuccess, unless the update threw.
DecisionStatus ==
  /\ At("sd_status")
  /\ IF Me.allDecisions >= Me.totalRecs
     THEN \E r \in {db_update(Store(tables, durableDb), "Incident",
                              view.incidentId, [status |-> "in_progress"])} :
            /\ Apply(r)
            /\ view' = IF r.ret.err # "" THEN view ELSE Refetched(r)
     ELSE /\ NoCall
          /\ view' = Refetched(Store(tables, durableDb))
  /\ Finish
  /\ lastAct' = "submitDecision"
  /\ UNCHANGED peer
  /\ UNCHANGED <<meta, durableMeta, hasStorage, clock, used>>

\* The statuses the page's selector and its "resolved" button set.
StatusInputs == {"in_progress", "resolved", "closed"}

NotesInputs == {"Rolled back the deployment"}

\* updateIncident.mutate({data, auditAction, auditDetails}): Promise.all of
\* Incident.update and AuditLog.create, both called before either is awaited;
\* then onSuccess, unless the update threw.
UpdateIncident(data, auditAction, auditDetails) ==
  \E u \in {db_update(Store(tables, durableDb), "Incident", view.incidentId,
                      data)} :
    \E r \in {db_create(Store(u.tables, u.durableDb), "AuditLog",
                        auditEntry(view.incidentId, auditAction, view.email,
                                   auditDetails),
                        uuid(nextId + 1))} :
      /\ Apply(r)
      /\ view' = IF u.ret.err # "" THEN view ELSE Refetched(r)

\* handleStatusChange(newStatus)
HandleStatusChange(newStatus) ==
  /\ AllIdle
  /\ view.open /\ view.incident # << >>
  /\ CountStart
  /\ UpdateIncident([status |-> newStatus], "status_changed",
                    Spread(Renamed(view.incident[1], [previous |-> "status"]),
                           [new |-> newStatus]))
  /\ lastAct' = "handleStatusChange"
  /\ UNCHANGED peer
  /\ UNCHANGED <<meta, durableMeta, hasStorage, clock, procs>>

\* handleResolve()
HandleResolve(resolutionNotes) ==
  /\ AllIdle
  /\ view.open /\ view.incident # << >>
  /\ CountStart
  /\ UpdateIncident([status |-> "resolved", resolved_at |-> clock,
                     resolution_notes |-> resolutionNotes],
                    "resolution_recorded", [notes |-> resolutionNotes])
  /\ lastAct' = "handleResolve"
  /\ UNCHANGED peer
  /\ UNCHANGED <<meta, durableMeta, hasStorage, clock, procs>>

----------------------------------------------------------------------------
(* The browser: the page is loaded again, and the README's reset *)

\* The page is loaded again in a browser with storage: the modules start
\* from the two keys and ensureSeeded() runs.
Reload ==
  /\ AllIdle
  /\ hasStorage
  /\ \E s \in {ensureSeeded(durableDb, durableMeta, hasStorage, clock)} :
       /\ tables' = s.tables
       /\ meta' = s.meta
       /\ durableDb' = s.durableDb
       /\ durableMeta' = s.durableMeta
       /\ result' = Ret("load", "", "", << >>, "", << >>, s.seeded)
  /\ view' = NoView
  /\ lastAct' = "load"
  /\ UNCHANGED peer
  /\ UNCHANGED <<hasStorage, clock, nextId, lastCreate, procs, used>>

\* The meta key is deleted in DevTools, as the README tells for a reset.
ClearMetaKey ==
  /\ AllIdle
  /\ hasStorage
  /\ durableMeta # NoBlob
  /\ durableMeta' = NoBlob
  /\ lastAct' = "clearMetaKey"
  /\ UNCHANGED peer
  /\ UNCHANGED <<tables, meta, durableDb, hasStorage, clock, nextId, result,
                 lastCreate, procs, view, used>>

----------------------------------------------------------------------------
(* The application *)

Next ==
  \/ Tick
  \/ \E formData \in FormInputs : SubmitIncident(formData)
  \/ SubmitMe
  \/ SubmitAudit
  \/ SubmitAnalyze
  \/ AnalysisUpdate
  \/ AnalysisAudit
  \/ AnalysisAutomate
  \/ \E id \in InvokeIds : InvokeAutomate(id)
  \/ AutomateExisting
  \/ AutomateUpsert
  \/ AutomateAudit
  \/ \E id \in InvokeIds : InvokeReview(id)
  \/ ReviewLogs
  \/ ReviewDecisions
  \/ ReviewExisting
  \/ ReviewUpsert
  \/ ReviewAudit
  \/ \E id \in InvokeIds : InvokeArticle(id)
  \/ ArticleCreate
  \/ \E id \in InvokeIds : InvokeSuggest(id)
  \/ SuggestArticles
  \/ InvokePredictions
  \/ PredictionsSample
  \/ PredictionsExtra
  \/ \E id \in DetailIds : OpenDetail(id)
  \/ \E i \in DOMAIN recommendationsOf(IF view.open THEN view.incident ELSE << >>) :
       \E d \in DecisionInputs(recommendationsOf(view.incident)[i]) :
         SubmitDecision(d)
  \/ DecisionAudit
  \/ DecisionCount
  \/ DecisionStatus
  \/ \E s \in StatusInputs : HandleStatusChange(s)
  \/ \E notes \in NotesInputs : HandleResolve(notes)
  \/ Reload
  \/ ClearMetaKey

Spec == Init /\ [][Next]_vars

----------------------------------------------------------------------------
(* Properties of the store contract, checked under SpecStore *)

\* The index, before the step, of the record a db.update step addresses.
UpdIdx == findIndex(Tbl(tables, result'.table), result'.id)

UpdateMissing == lastAct' = "db.update" /\ UpdIdx = 0

UpdateExisting == lastAct' = "db.update" /\ UpdIdx # 0

\* Every record of every table is the same after the step, but for the one
\* at index idx of table t.
OthersUnchanged(t, idx) ==
  /\ DOMAIN tables \subseteq DOMAIN tables'
  /\ \A u \in DOMAIN tables' :
       /\ Len(tables'[u]) = Len(Tbl(tables, u))
       /\ \A j \in 1..Len(tables'[u]) :
            (u # t \/ j # idx) => tables'[u][j] = tables[u][j]

\* C2: update(T, id, patch) with an id no record of T carries fails with
\* NotFound and leaves the store as it was: no record of any table is added,
\* removed or modified and nothing is written to the durable key.
C2_UpdateMissingLeavesStore ==
  [][UpdateMissing =>
       /\ result'.err = NotFound
       /\ result'.recs = << >>
       /\ OthersUnchanged(result'.table, 0)
       /\ durableDb' = durableDb
       /\ ~result'.saved]_vars

C2_Witness ==
  /\ hasStorage
  /\ lastAct = "db.update"
  /\ result.err = NotFound
  /\ result.id = "missing"
  /\ result.table = "Incident"

C4_UniqueIds ==
  \A t \in DOMAIN tables :
    \A i, j \in 1..Len(tables[t]) :
      i # j => tables[t][i].id # tables[t][j].id

\* C5: a record's created_date never changes after the record is created,
\* whatever update calls follow (a step that removes no record keeps every
\* record at its index).
C5_CreatedDateImmutable ==
  [][lastAct' \notin {"db.remove", "load"} =>
       \A t \in DOMAIN tables :
         \A i \in 1..Len(tables[t]) :
           Has(tables[t][i], "created_date")
             => /\ Has(tables'[t][i], "created_date")
                /\ tables'[t][i].created_date = tables[t][i].created_date]_vars

----------------------------------------------------------------------------
(* Properties of create followed by list and filter, checked under SpecVolume *)

\* The record of the last create is still in its table as created.
StillThere ==
  /\ lastCreate.present
  /\ \E i \in 1..Len(Tbl(tables, lastCreate.table)) :
       tables[lastCreate.table][i] = lastCreate.rec

\* recs holds a record with the created record's id that has the caller's
\* fields with the caller's values and both timestamps.
Returns(recs) ==
  \E i \in 1..Len(recs) :
    /\ recs[i].id = lastCreate.rec.id
    /\ \A k \in DOMAIN lastCreate.data :
         Has(recs[i], k) /\ recs[i][k] = lastCreate.data[k]
    /\ Has(recs[i], "created_date")
    /\ Has(recs[i], "updated_date")

ListReturns ==
  Returns(list(tables, lastCreate.table, "-created_date", DefaultListLimit))

FilterReturns ==
  Returns(filter(tables, lastCreate.table, NoWhere, "-created_date",
                 DefaultFilterLimit))

\* C1 as amended: a record R returned by create(T, data) and neither updated
\* nor deleted since is returned, with the caller's fields and both
\* timestamps, by list(T) with the default sort and limit provided T holds at
\* most 100 records, and by filter(T) provided T holds at most 1000 records.
C1_CreatedIsListedWithinLimit ==
  StillThere =>
    /\ Len(tables[lastCreate.table]) <= DefaultListLimit => ListReturns
    /\ Len(tables[lastCreate.table]) <= DefaultFilterLimit => FilterReturns

\* A created alert that is listed although it is backdated.
C1_Witness ==
  /\ StillThere
  /\ lastCreate.table = "PredictiveAlert"
  /\ lastCreate.rec.created_date < clock
  /\ Len(tables[lastCreate.table]) = DefaultListLimit
  /\ ListReturns
  /\ FilterReturns

\* C1 as stated: the record is returned by list(T) and by filter(T) whatever
\* other records T holds.
C1_CreatedIsListed == StillThere => ListReturns /\ FilterReturns

----------------------------------------------------------------------------
(* Properties of the application, checked under Spec *)

\* C6: in every reachable state every record of every table, the seeded ones
\* included, carries created_date and updated_date, and its updated_date is
\* not earlier than its created_date.
C6_EveryRecordDated ==
  \A t \in DOMAIN tables : \A i \in DOMAIN tables[t] :
    /\ Has(tables[t][i], "created_date")
    /\ Has(tables[t][i], "updated_date")
    /\ tables[t][i].updated_date >= tables[t][i].created_date

\* C7: in every reachable state no two IncidentAutomation records and no two
\* PostIncidentReview records carry the same incident_id, whatever the number
\* of invocations of the two generators and however their steps interleave.
C7_OnePerIncident ==
  \A t \in {"IncidentAutomation", "PostIncidentReview"} :
    \A i, j \in DOMAIN Tbl(tables, t) :
      (/\ Has(tables[t][i], "incident_id")
       /\ Has(tables[t][j], "incident_id")
       /\ tables[t][i].incident_id = tables[t][j].incident_id) => i = j

\* C8: Decision and AuditLog are append-only: a record of either table is
\* still in the table, with the same fields, after every step, a page load
\* with its run of ensureSeeded included.
C8_AppendOnly ==
  [][\A t \in {"Decision", "AuditLog"} : \A i \in DOMAIN Tbl(tables, t) :
       \E j \in DOMAIN Tbl(tables', t) : tables'[t][j] = tables[t][i]]_vars

\* The audit record of a decision: same incident, "decision_made", and the
\* decision's action, value and reason as its details.
Audits(log, decision) ==
  /\ Has(log, "incident_id") /\ Has(decision, "incident_id")
  /\ log.incident_id = decision.incident_id
  /\ Has(log, "action_type") /\ log.action_type = "decision_made"
  /\ Has(log, "details")
  /\ log.details =
       Renamed(decision,
               [action |-> "recommendation_action", decision |-> "decision",
                reason |-> "decision_reason"])

\* C9: in every reachable state every Decision record has an AuditLog record
\* of the same incident with action_type "decision_made" whose details are
\* the decision's action, value and reason.
C9_EveryDecisionAudited ==
  \A d \in Range(Tbl(tables, "Decision")) :
    \E l \in Range(Tbl(tables, "AuditLog")) : Audits(l, d)

\* The statuses of an incident that is being acted on, or was.
ActedStatuses == {"in_progress", "resolved", "closed"}

\* The steps a user's action on the incident page consists of.
UserActions == {"submitDecision", "handleStatusChange", "handleResolve"}

\* The incident has one of the statuses after the step and did not have that
\* status before it.
Reaches(incident) ==
  /\ Has(incident, "status")
  /\ incident.status \in ActedStatuses
  /\ ~ \E old \in Range(Tbl(tables, "Incident")) :
         /\ old.id = incident.id
         /\ Has(old, "status")
         /\ old.status = incident.status

----------------------------------------------------------------------------
(* Properties of persistence, checked under SpecStore *)

\* The step is a store call that mutates: a create, or an update or a delete
\* of an id that a record of the table carries.
Mutates ==
  \/ lastAct' = "db.create"
  \/ /\ lastAct' \in {"db.update", "db.remove"}
     /\ findIndex(Tbl(tables, result'.table), result'.id) # 0

\* The blob under the store key holds every table of ts with its records.
HoldsAll(blob, ts) ==
  /\ blob.present
  /\ DOMAIN blob.tables = DOMAIN ts
  /\ \A t \in DOMAIN ts : blob.tables[t] = ts[t]

\* C11: with durable storage, when a mutating store call (create, update of
\* an existing record, delete of an existing record) returns, the blob under
\* the store key is the serialization of the whole in-memory store: every
\* table, with exactly the records the memory holds.
C11_BlobIsWholeStore ==
  [][(hasStorage /\ Mutates) => HoldsAll(durableDb', tables')]_vars

\* A delete of a created record, after which the blob holds the whole store,
\* the table the record was created in included.
C11_Witness ==
  /\ hasStorage
  /\ lastAct = "db.remove"
  /\ result.saved
  /\ result.table = "Runbook"
  /\ "Runbook" \in DOMAIN tables
  /\ HoldsAll(durableDb, tables)

----------------------------------------------------------------------------
(* Two tabs of one browser.  Each tab has its own memory.db and memory.meta  *)
(* and both read and write the same two localStorage keys.  The variables   *)
(* tables, meta and result are those of the tab at work; peer holds the     *)
(* memory and the last call of the other tab.                               *)

\* The module load of a tab that is opened after the first one: ensureSeeded
\* finds the seeded flag and the tab's memory is what the two keys hold.
OpenTab(blobDb, blobMeta, storage, now) ==
  LET s == ensureSeeded(blobDb, blobMeta, storage, now)
  IN  [open |-> TRUE, tables |-> s.tables, meta |-> s.meta,
       ret |-> Ret("load", "", "", << >>, "", << >>, FALSE), act |-> "load"]

\* Both tabs have loaded the store.
TabsInit ==
  /\ FirstLoad
  /\ hasStorage
  /\ peer = OpenTab(durableDb, durableMeta, hasStorage, clock)

\* The user turns to the other tab, between two calls.
SwitchTab ==
  /\ peer.open
  /\ AllIdle
  /\ tables' = peer.tables
  /\ meta' = peer.meta
  /\ result' = peer.ret
  /\ peer' = [open |-> TRUE, tables |-> tables, meta |-> meta,
              ret |-> result, act |-> lastAct]
  /\ lastAct' = "switchTab"
  /\ lastCreate' = NoCreate
  /\ view' = NoView
  /\ UNCHANGED <<durableDb, durableMeta, hasStorage, clock, nextId, procs,
                 used>>

TabsNext ==
  \/ StoreNext
  \/ SwitchTab

SpecTabs == TabsInit /\ [][TabsNext]_vars

----------------------------------------------------------------------------
(* Properties of two tabs, checked under SpecTabs *)

\* The last call of a tab was a mutation that went through.
Wrote(act, ret) ==
  /\ act \in {"db.create", "db.update", "db.remove"}
  /\ ret.err = ""
  /\ ret.saved

\* What the other tab's mutation changed is not in the blob after the step:
\* the record it created or updated is not there, and the record it deleted
\* still is.  A record this tab's own call produces or removes is this tab's
\* change, whatever the other tab did.
OtherChangeAbsent ==
  LET a == peer.ret
      mine == Tbl(tables, a.table)
      kept == Tbl(durableDb'.tables, a.table)
  IN  /\ (/\ a.op \in {"create", "update"}
          /\ a.recs[1] \notin Range(mine)
          /\ result'.recs # a.recs)
           => a.recs[1] \notin Range(kept)
      /\ (/\ a.op = "remove"
          /\ findIndex(mine, a.id) # 0
          /\ ~(result'.table = a.table /\ result'.id = a.id))
           => findIndex(kept, a.id) # 0

\* C12: two tabs share the store key and each has loaded the store.  When
\* one tab has performed a mutation and the other tab then performs one, the
\* blob under the key afterwards is the memory of the tab that wrote last,
\* the first tab's change is not in it, and neither call reported an error.
C12_LastWriteWins ==
  [][(Mutates /\ peer.open /\ Wrote(peer.act, peer.ret)) =>
       /\ HoldsAll(durableDb', tables')
       /\ result'.err = ""
       /\ OtherChangeAbsent]_vars

\* One tab created a record, the other tab then updated an incident: the blob
\* is the second tab's memory and lacks the record the first tab still holds.
C12_Witness ==
  /\ peer.open
  /\ lastAct = "db.update"
  /\ result.err = ""
  /\ Wrote(peer.act, peer.ret)
  /\ peer.ret.op = "create"
  /\ peer.ret.recs[1] \in Range(Tbl(peer.tables, peer.ret.table))
  /\ peer.ret.recs[1] \notin Range(Tbl(durableDb.tables, peer.ret.table))
  /\ HoldsAll(durableDb, tables)

----------------------------------------------------------------------------
(* Creates followed by a sorted list: a table that starts empty is filled by *)
(* successive create calls and listed with the caller's sort.  db.create     *)
(* pushes, so the order of the table is the order of the create calls.       *)

MaxCreated == 3

OrderTable == "Runbook"

\* Data without timestamps of the caller; one record lacks the field priority.
OrderInputs ==
  { [title |-> "Restart procedure", priority |-> 2],
    [title |-> "Failover procedure"] }

OrderSorts == {"-created_date", "priority"}

\* entityFactory(t).create(data), one call after the other
OrderCreate(data) ==
  /\ Len(Tbl(tables, OrderTable)) < MaxCreated
  /\ LET r == db_create(Store(tables, durableDb), OrderTable, data,
                        uuid(nextId + 1))
     IN  /\ tables' = r.tables
         /\ durableDb' = r.durableDb
         /\ result' = r.ret
         /\ lastCreate' = Created(r.ret)
  /\ nextId' = nextId + 1
  /\ lastAct' = "db.create"
  /\ UNCHANGED <<clock, used, peer>>
  /\ AppUnchanged

\* entityFactory(t).list(sort); the sort is kept with what the call returned.
OrderList(sort) ==
  /\ LET r == db_list(Store(tables, durableDb), OrderTable, sort,
                      DefaultListLimit)
     IN  /\ tables' = r.tables
         /\ result' = [r.ret EXCEPT !.arg = [sort |-> sort]]
  /\ lastAct' = "db.list"
  /\ UNCHANGED <<durableDb, clock, nextId, lastCreate, used, peer>>
  /\ AppUnchanged

OrderNext ==
  \/ Tick
  \/ \E data \in OrderInputs : OrderCreate(data)
  \/ \E sort \in OrderSorts : OrderList(sort)

SpecOrder == Init /\ [][OrderNext]_vars

----------------------------------------------------------------------------
(* Properties of the sort, checked under SpecOrder *)

Listed(sort) == lastAct = "db.list" /\ result.arg = [sort |-> sort]

\* C13: after three records R1, R2, R3 were created in that order in one
\* table by three successive create calls without a created_date of the
\* caller, list with sort "-created_date" returns R3, R2, R1, however close
\* in time the three calls were.
C13_NewestFirst ==
  (Listed("-created_date") /\ Len(Tbl(tables, OrderTable)) = 3) =>
    result.recs = <<tables[OrderTable][3], tables[OrderTable][2],
                    tables[OrderTable][1]>>

\* C15: list and filter order records by a total order on the sort field in
\* which a missing value sorts before every present value for an ascending
\* sort: in the result of an ascending sort on a field, every record lacking
\* the field precedes every record having it, whatever the order of the
\* records in the table.
C15_MissingFirst ==
  Listed("priority") =>
    \A i, j \in 1..Len(result.recs) :
      (~Has(result.recs[i], "priority") /\ Has(result.recs[j], "priority"))
        => i < j

----------------------------------------------------------------------------
(* A browser that has been in use for long: its store key holds the seeded   *)
(* store and the alerts of many earlier runs of generatePredictions, one run *)
(* per millisecond after the seeding.  The page is loaded from the key, more *)
(* runs follow, and the pages filter the tables.                             *)

MaxBulk == 1001

\* The number of earlier runs: the table is two runs or one run short of
\* MaxBulk alerts.
BulkRuns ==
  LET full == (MaxBulk - Len(seedPredictiveAlert(Now0))) \div (Len(sample) + 1)
  IN  {full - 2, full - 1}

\* The alerts of k runs, as PredictionsSample and PredictionsExtra create
\* them: the n-th created record is alert (n - 1) % 4 of run (n - 1) \div 4.
bulkAlerts(k, ts) ==
  LET sys == extraSystem(list(ts, "Incident", "-created_date", 50))
      per == Len(sample) + 1
  IN  [n \in 1..(k * per) |->
         LET now == Now0 + ((n - 1) \div per) + 1
             i == (n - 1) % per
         IN  createRec(IF i < Len(sample) THEN sampleAlert(i, now)
                       ELSE extraAlert(sys, now),
                       uuid(n), now)]

bulkTables(k) ==
  LET ts == seedTables(initialDb, Now0)
  IN  [ts EXCEPT !["PredictiveAlert"] = @ \o bulkAlerts(k, ts)]

\* The module load of a page whose keys hold the store after k runs.
BulkInit ==
  \E k \in BulkRuns :
    /\ hasStorage = TRUE
    /\ clock = Now0 + k
    /\ LET m == [initialMeta EXCEPT !.seeded = TRUE]
           s == ensureSeeded(dbBlob(bulkTables(k)), metaBlob(m), TRUE, Now0 + k)
       IN  /\ tables = s.tables
           /\ meta = s.meta
           /\ durableDb = s.durableDb
           /\ durableMeta = s.durableMeta
    /\ nextId = k * (Len(sample) + 1)
    /\ result = Ret("load", "", "", << >>, "", << >>, FALSE)
    /\ lastCreate = NoCreate
    /\ procs = << >>
    /\ view = NoView
    /\ lastAct = "load"
    /\ used = [calls |-> 0, starts |-> 0]
    /\ peer = NoPeer

BulkStart ==
  /\ AllIdle
  /\ Len(Tbl(tables, "PredictiveAlert")) + Len(sample) + 1 <= MaxBulk
  /\ PredictionsStart
  /\ UNCHANGED used

\* The where clauses of the pages, with one, with two and with no condition,
\* and with a condition that is undefined.
BulkQueries ==
  { <<"PredictiveAlert", [status |-> Eq("active")]>>,
    <<"PredictiveAlert", [severity |-> Eq("critical")]>>,
    <<"PredictiveAlert", [status |-> Eq("active"), severity |-> Eq("high")]>>,
    <<"Incident", [severity |-> Eq("critical")]>>,
    <<"Incident", [severity |-> Eq("high"), status |-> Eq("new")]>>,
    <<"Incident", [severity |-> Eq("high"), status |-> Eq("resolved")]>>,
    <<"Incident", [severity |-> Undef, status |-> Eq("in_progress")]>>,
    <<"Incident", [id |-> Eq("inc_004")]>>,
    <<"Incident", [id |-> Eq("inc_404")]>>,
    <<"Incident", NoWhere>>,
    <<"AuditLog", [incident_id |-> Eq("inc_001")]>>,
    <<"Decision", [incident_id |-> Eq("inc_004"), decision |-> Eq("approved")]>> }

BulkNext ==
  \/ BulkStart
  \/ PredictionsSample
  \/ PredictionsExtra
  \/ \E q \in BulkQueries : EntityFilter(q[1], q[2])

SpecBulk == BulkInit /\ [][BulkNext]_vars

----------------------------------------------------------------------------
(* Properties of filter, checked under SpecBulk *)

Filtered == lastAct = "db.filter" /\ result.op = "filter"

\* The value a scalar condition expects is strictly the record's value.
Holds(record, k, c) ==
  \/ c.kind = "undefined"
  \/ c.kind = "scalar" /\ Has(record, k) /\ record[k] = c.v

\* The records of the filtered table that meet every condition of the call.
Matching ==
  {r \in Range(Tbl(tables, result.table)) :
     \A k \in DOMAIN result.arg : Holds(r, k, result.arg[k])}

\* C14 as amended: filter(T, where) with scalar conditions returns only
\* records of T that meet every condition (a condition that is undefined
\* imposes nothing), whatever their other fields; it returns all of them
\* provided at most 1000 records match, the default limit, and the first
\* 1000 in sort order otherwise.
C14_FilterExactWithinLimit ==
  Filtered =>
    /\ Range(result.recs) \subseteq Matching
    /\ Cardinality(Range(result.recs)) = Len(result.recs)
    /\ Cardinality(Matching) <= DefaultFilterLimit
         => Range(result.recs) = Matching
    /\ Cardinality(Matching) > DefaultFilterLimit
         => Len(result.recs) = DefaultFilterLimit

\* A filter of the alerts by status that returns all 1000 records of the
\* table.
C14_Witness ==
  /\ Filtered
  /\ result.table = "PredictiveAlert"
  /\ result.arg = [status |-> Eq("active")]
  /\ Len(Tbl(tables, "PredictiveAlert")) = DefaultFilterLimit
  /\ Len(result.recs) = DefaultFilterLimit
  /\ Range(result.recs) = Matching

\* C14 as stated: filter returns exactly the records that meet the
\* conditions, however many records the table holds.
C14_FilterExact == Filtered => Range(result.recs) = Matching

----------------------------------------------------------------------------
(* Properties of delete, checked under SpecStore *)

\* The records of table t of ts, but for the one at index i.
Without(ts, t, i) ==
  SubSeq(Tbl(ts, t), 1, i - 1) \o SubSeq(Tbl(ts, t), i + 1, Len(Tbl(ts, t)))

\* C16: delete(T, id) with an id that no record of T carries returns a
\* success result and leaves the records of every table as they were; with
\* an id that is present it removes exactly one record with that id and
\* leaves every other record of T and every other table as they were.
C16_DeleteRemovesOne ==
  [][lastAct' = "db.remove" =>
       LET t == result'.table
           present == {i \in DOMAIN Tbl(tables, t) :
                         Has(tables[t][i], "id") /\ tables[t][i].id = result'.id}
       IN  /\ result'.op = "remove"
           /\ result'.err = ""
           /\ DOMAIN tables \subseteq DOMAIN tables'
           /\ \A u \in (DOMAIN tables') \ {t} : tables'[u] = Tbl(tables, u)
           /\ present = {} => tables'[t] = Tbl(tables, t)
           /\ present # {} =>
                \E i \in present : tables'[t] = Without(tables, t, i)]_vars

\* The seeded incident inc_001 was deleted from a table that held a second
\* record with that id, which is still there.
C16_Witness ==
  /\ lastAct = "db.remove"
  /\ result.table = "Incident"
  /\ result.id = "inc_001"
  /\ Len(tables["Incident"]) = Len(seedIncidents(Now0))
  /\ findIndex(tables["Incident"], "inc_001") # 0

----------------------------------------------------------------------------
(* functions.invoke as its callers use it: any name, the same payload, from  *)
(* either of two tabs that have loaded the same store.                       *)

Generators ==
  {"generatePredictions", "automateIncidentResponse",
   "generatePostIncidentReview", "suggestKnowledgeArticles",
   "generateArticleFromIncident"}

\* Names that none of the five comparisons of invoke accepts: === is exact,
\* also about the case of the letters.
UnknownNames == {"generateReport", "GeneratePredictions", ""}

\* An invoke that answers an unknown name with {data: {ok: false}}.
invokeUnknown_Ignored(S, name) ==
  After(S.tables, S.durableDb,
        Ret("invoke", "", "", [name |-> name], "", << >>, FALSE))

\* invoke(name) with a name none of the five branches takes: the call falls
\* through to throw new Error(`Unknown function: ${name}`).
invokeUnknown(S, name) ==
  After(S.tables, S.durableDb,
        Ret("invoke", "", "", [name |-> name], "Unknown function: " \o name,
            << >>, FALSE))

InvokeUnknown(name) ==
  /\ name \notin Generators
  /\ \E r \in {invokeUnknown(Store(tables, durableDb), name)} :
       /\ tables' = r.tables
       /\ durableDb' = r.durableDb
       /\ result' = r.ret
  /\ lastAct' = "invoke"
  /\ UNCHANGED <<meta, durableMeta, hasStorage, clock, nextId, lastCreate,
                 procs, view, used, peer>>

\* The payload of the invocations: a seeded incident, whose ai_analysis holds
\* a summary and a confidence score only.
ReplayIds == {"inc_001"}

ReplayNext ==
  \/ Tick
  \/ SwitchTab
  \/ \E name \in UnknownNames : InvokeUnknown(name)
  \/ InvokePredictions
  \/ PredictionsSample
  \/ PredictionsExtra
  \/ \E id \in ReplayIds : InvokeAutomate(id)
  \/ AutomateExisting
  \/ AutomateUpsert
  \/ AutomateAudit
  \/ \E id \in ReplayIds : InvokeReview(id)
  \/ ReviewLogs
  \/ ReviewDecisions
  \/ ReviewExisting
  \/ ReviewUpsert
  \/ ReviewAudit
  \/ \E id \in ReplayIds : InvokeSuggest(id)
  \/ SuggestArticles
  \/ \E id \in ReplayIds : InvokeArticle(id)
  \/ ArticleCreate

SpecReplay == TabsInit /\ [][ReplayNext]_vars

----------------------------------------------------------------------------
(* Properties of functions.invoke, checked under SpecReplay *)

\* C17: functions.invoke with a name other than the five generators' fails
\* with the error for an unknown operation, which carries the name, and
\* creates, updates or deletes no record, in memory or under the store key.
C17_UnknownNameFails ==
  [][lastAct' = "invoke" =>
       /\ result'.arg.name \notin Generators
       /\ result'.err = "Unknown function: " \o result'.arg.name
       /\ tables' = tables
       /\ durableDb' = durableDb
       /\ procs' = procs]_vars

\* invoke("GeneratePredictions") has failed, in a store that an earlier
\* invocation of generatePredictions has written to.
C17_Witness ==
  /\ lastAct = "invoke"
  /\ result.err = "Unknown function: GeneratePredictions"
  /\ Len(Tbl(tables, "PredictiveAlert")) > Len(seedPredictiveAlert(Now0))

\* C18: invoking any of the five generators for an incident that exists in
\* the store never raises an error, whatever fields the incident has or
\* lacks (an ai_analysis with only some of its fields, as the seeded
\* incidents have, included): every step of such an invocation completes
\* without an error.
C18_GeneratorsNeverFail ==
  (lastAct \in Generators /\ ReplayIds \subseteq IncidentIds) =>
    result.err = ""

\* C19: each generator is reproducible.  When each of the two tabs, both
\* started from the same store snapshot, has completed one invocation of the
\* same generator with the same payload, and nothing else was invoked, the two
\* calls have returned the same and the two memories hold the same records,
\* ids and timestamps included.
C19_Reproducible ==
  (/\ peer.open
   /\ AllIdle
   /\ used.starts = 2
   /\ lastAct \in Generators
   /\ peer.act = lastAct) =>
    /\ result = peer.ret
    /\ tables = peer.tables

-----------------------------------------------------------------------------
(* The heuristic analyzer as a function of its incident *)

\* An incident without the field.
Absent == [k \in {} |-> ""]

\* Incident-shaped records: each of title, description, logs and severity
\* present or not, descriptions of 0, 23, 40, 41 and 44 characters, and
\* severities inside and outside the table.
AnalyzerInputs ==
  { Spread(Spread(t, d), Spread(l, s)) :
      t \in {Absent, [title |-> "DB outage"], [title |-> "Login page slow"]},
      d \in {Absent, [description |-> ""],
             [description |-> "Users report slow pages"],
             [description |-> "Checkout requests fail for several users"],
             [description |-> "Checkout requests fail for some customers"],
             [description |-> "Postgres connection timeouts across checkout"]},
      l \in {Absent,
             [logs |-> "ERROR: mysql connection pool exhausted on primary host"]},
      s \in {Absent, [severity |-> "critical"], [severity |-> "high"],
             [severity |-> "medium"], [severity |-> "low"],
             [severity |-> "CRITICAL"], [severity |-> "urgent"]} }

\* buildAnalysisFromIncident(incident), called on its own.
Analyze(incident) ==
  /\ result' = Ret("buildAnalysisFromIncident", "", "", incident, "",
                   <<buildAnalysisFromIncident(incident)>>, FALSE)
  /\ lastAct' = "analyze"
  /\ UNCHANGED <<tables, meta, durableDb, durableMeta, hasStorage, clock,
                 nextId, lastCreate, procs, view, used, peer>>

AnalyzerNext == \E incident \in AnalyzerInputs : Analyze(incident)

SpecAnalyzer == Init /\ [][AnalyzerNext]_vars

\* The field of an incident, the empty string when it has none.
Field(incident, f) == IF Has(incident, f) THEN incident[f] ELSE ""

\* The confidence and first probability, in hundredths, that follow from a
\* table lookup of sev, the length of text, and the database keywords in
\* title and text.
Confidence(sev, text) ==
  (CASE sev = "critical" -> 78 [] sev = "high" -> 72 [] sev = "medium" -> 66
     [] sev = "low" -> 60 [] OTHER -> 66)
  - (IF Len(text) <= 40 THEN 8 ELSE 0)

DbWords == {"db", "database", "postgres", "mysql", "query", "timeout"}

FirstProbability(title, text) ==
  IF \E k \in DbWords : includes(toLowerCase(title \o " " \o text), k)
  THEN 45 + 15 ELSE 45

DbOutage ==
  [title |-> "DB outage",
   description |-> "Postgres connection timeouts across checkout",
   severity |-> "critical"]

DbCause == "Database resource saturation (connections / slow queries)"

\* C20: the analyzer's confidence_score is the table value of the severity
\* (compared in lower case, medium when missing; 0.66 outside the table) minus
\* 0.08 exactly when the text has at most 40 characters, and its first root
\* cause has probability 0.45 plus 0.15 exactly when a database keyword occurs
\* in the title or the text, where the text is the description or, when the
\* description is missing or empty, the logs.  The incident "DB outage" gets
\* the database cause, confidence 0.78 and first probability 0.60.
C20_AnalyzerFormula ==
  lastAct = "analyze" =>
    \E incident \in {result.arg}, a \in {result.recs[1]} :
    \E text \in {IF Field(incident, "description") # ""
                 THEN incident.description ELSE Field(incident, "logs")},
       sev \in {IF Field(incident, "severity") # ""
                THEN toLowerCase(incident.severity) ELSE "medium"} :
      /\ a.confidence_score = Confidence(sev, text)
      /\ a.root_causes[1].probability
           = FirstProbability(Field(incident, "title"), text)
      /\ incident = DbOutage =>
           /\ a.root_causes[1].cause = DbCause
           /\ a.confidence_score = 78
           /\ a.root_causes[1].probability = 60

\* The incident "DB outage" has been analysed.
C20_Witness ==
  /\ lastAct = "analyze"
  /\ result.arg = DbOutage
  /\ result.recs[1].confidence_score = 78

\* C20 as stated: the penalty and the keywords are those of the description
\* alone, and the table is looked up with the severity as it is.
C20_DescriptionOnly ==
  lastAct = "analyze" =>
    \E incident \in {result.arg}, a \in {result.recs[1]} :
      /\ a.confidence_score
           = Confidence(Field(incident, "severity"),
                        Field(incident, "description"))
      /\ a.root_causes[1].probability
           = FirstProbability(Field(incident, "title"),
                              Field(incident, "description"))

-----------------------------------------------------------------------------
(* The automation builder as a function of its incident *)

\* Incidents with and without a source that names the network, with systems
\* that match none, one or several of the rules, in either order.
AutomationInputs ==
  { Spread(Spread(src, sys), sev) :
      src \in {Absent, [source |-> "Datadog"], [source |-> "Network monitor"],
               [source |-> "core-network-probe"]},
      sys \in {Absent, [affected_systems |-> << >>],
               [affected_systems |-> <<"Auth Service">>],
               [affected_systems |-> <<"Orders DB">>],
               [affected_systems |-> <<"IAM Gateway">>],
               [affected_systems |-> <<"Checkout API">>],
               [affected_systems |-> <<"Auth Service", "Orders DB">>],
               [affected_systems |-> <<"Orders DB", "Auth Service">>],
               [affected_systems |-> <<"Checkout API", "IAM Gateway">>]},
      sev \in {Absent, [severity |-> "critical"], [severity |-> "low"]} }

\* buildAutomationForIncident(incident, analysis), called on its own with
\* an analysis that holds a confidence score.
Automation(incident) ==
  /\ result' = Ret("buildAutomationForIncident", "", "", incident, "",
                   <<buildAutomationForIncident(incident,
                                                [confidence_score |-> 76])>>,
                   FALSE)
  /\ lastAct' = "automation"
  /\ UNCHANGED <<tables, meta, durableDb, durableMeta, hasStorage, clock,
                 nextId, lastCreate, procs, view, used, peer>>

AutomationNext == \E incident \in AutomationInputs : Automation(incident)

SpecAutomation == Init /\ [][AutomationNext]_vars

\* Some system of the incident has the word in its name, in any case.
SystemHas(incident, word) ==
  \E i \in DOMAIN OrEmpty(incident, "affected_systems") :
    includes(toLowerCase(incident.affected_systems[i]), word)

\* The rules of the chain, in their order.
NetworkRule(incident) ==
  includes(toLowerCase(Field(incident, "source")), "network")

DbRule(incident) == SystemHas(incident, "db")

IdentityRule(incident) ==
  SystemHas(incident, "auth") \/ SystemHas(incident, "iam")

\* C21: the team is the one of the first rule that matches: a source with
\* "network" gives Network Operations; else a system with "db" gives Database
\* Reliability; else a system with "auth" or "iam" gives Identity & Access;
\* else Site Reliability Engineering.  The incident with systems
\* ["Auth Service"] and another source gets Identity & Access.
C21_FirstRuleWins ==
  lastAct = "automation" =>
    \E incident \in {result.arg}, team \in {result.recs[1].assigned_team} :
      /\ NetworkRule(incident) => team = "Network Operations"
      /\ (~NetworkRule(incident) /\ DbRule(incident))
           => team = "Database Reliability"
      /\ (~NetworkRule(incident) /\ ~DbRule(incident) /\ IdentityRule(incident))
           => team = "Identity & Access"
      /\ (~NetworkRule(incident) /\ ~DbRule(incident) /\ ~IdentityRule(incident))
           => team = "Site Reliability Engineering"
      /\ (/\ OrEmpty(incident, "affected_systems") = <<"Auth Service">>
          /\ ~NetworkRule(incident))
           => team = "Identity & Access"

\* The automation of the incident with systems ["Auth Service"] and a source
\* without "network" has been built.
C21_Witness ==
  /\ lastAct = "automation"
  /\ result.arg = [source |-> "Datadog",
                   affected_systems |-> <<"Auth Service">>]
  /\ result.recs[1].assigned_team = "Identity & Access"

-----------------------------------------------------------------------------
(* Suggestions for incidents and articles made through the pages *)

MaxLibrary == 5

\* The articles the CreateArticle page has stored.
DatabaseArticle ==
  [title |-> "Runbook: Checkout database latency",
   summary |-> "Payments checkout latency from database saturation: connection pool, slow queries and cache strategies.",
   content |-> "", category |-> "runbook",
   tags |-> <<"payments", "database", "checkout">>,
   related_systems |-> << >>, status |-> "published",
   author |-> demoUser.email]

PoolArticle ==
  [title |-> "Guide: connection pool tuning",
   summary |-> "Sizing the pool, slow queries, cache and timeouts for API gateways.",
   content |-> "", category |-> "general",
   tags |-> <<"pool", "timeouts", "api">>,
   related_systems |-> << >>, status |-> "published",
   author |-> demoUser.email]

CertificateArticle ==
  [title |-> "Guide: certificate rotation",
   summary |-> "Rotate certificates before expiry.",
   content |-> "", category |-> "general",
   tags |-> <<"identity", "certificate">>,
   related_systems |-> << >>, status |-> "draft",
   author |-> demoUser.email]

\* The incident of three tokens, one of them short, and an incident of 37
\* tokens whose last twelve name the certificate article.
SuggestIncidentInputs ==
  { [title |-> "SSO callback failure"],
    [title |-> "Checkout database latency",
     description |-> "Payments API shows slow queries and connection pool saturation for the checkout DB since noon; cache misses grow and retries fail with timeouts. Unrelated: certificate rotation before expiry, rotate certificates",
     severity |-> "high", status |-> "new",
     affected_systems |-> <<"Payments API", "Orders DB">>] }

SuggestArticleInputs == {DatabaseArticle, CertificateArticle}

\* The k articles of an earlier session, one created per millisecond.
libraryArticles(k) ==
  [n \in 1..k |->
     createRec(IF n % 2 = 1 THEN DatabaseArticle ELSE PoolArticle,
               uuid(n), Now0 + n)]

libraryTables(k) ==
  LET ts == seedTables(initialDb, Now0)
  IN  [ts EXCEPT !["KnowledgeBaseArticle"] = @ \o libraryArticles(k)]

\* The module load of a page whose keys hold the seed alone, or the seed and
\* the articles of an earlier session.
SuggestInit ==
  \E k \in {0, MaxLibrary} :
    /\ hasStorage = TRUE
    /\ clock = Now0 + k
    /\ LET m == [initialMeta EXCEPT !.seeded = TRUE]
           s == ensureSeeded(dbBlob(libraryTables(k)), metaBlob(m), TRUE,
                             Now0 + k)
       IN  /\ tables = s.tables
           /\ meta = s.meta
           /\ durableDb = s.durableDb
           /\ durableMeta = s.durableMeta
    /\ nextId = k
    /\ result = Ret("load", "", "", << >>, "", << >>, FALSE)
    /\ lastCreate = NoCreate
    /\ procs = << >>
    /\ view = NoView
    /\ lastAct = "load"
    /\ used = [calls |-> 0, starts |-> 0]
    /\ peer = NoPeer

SuggestNext ==
  \/ \E data \in SuggestIncidentInputs : EntityCreate("Incident", data)
  \/ \E data \in SuggestArticleInputs :
       EntityCreate("KnowledgeBaseArticle", data)
  \/ \E incident_id \in InvokeIds : InvokeSuggest(incident_id)
  \/ SuggestArticles

SpecSuggest == SuggestInit /\ [][SuggestNext]_vars

\* An invocation of suggestKnowledgeArticles has returned.
Suggested == lastAct = "suggestKnowledgeArticles" /\ result.op = "invoke"

\* The incident the invocation named; no incident is changed or deleted here.
Named == {r \in Range(Tbl(tables, "Incident")) : r.id = result.id}

\* C22: for the incident titled "SSO callback failure", without description
\* and systems, and a store that holds the article tagged
\* ["auth", "sso", "identity"], the suggestions returned hold that article,
\* with a relevance of at least 0.25 and a reason that is "Partial keyword
\* match" or stronger.
C22_SsoArticleSuggested ==
  (/\ Suggested
   /\ \E r \in Named : r.title = "SSO callback failure"
   /\ \E a \in Range(Tbl(tables, "KnowledgeBaseArticle")) :
        a.tags = <<"auth", "sso", "identity">>) =>
    \E i \in DOMAIN result.recs :
      /\ result.recs[i].article.tags = <<"auth", "sso", "identity">>
      /\ result.recs[i].relevance_score >= 25
      /\ result.recs[i].reason
           \in {"Partial keyword match", "Strong tag/title overlap"}


\* Whether a word occurs in the title, the summary or a tag of an article,
\* in lower case.
InArticle(word, a) ==
  \/ includes(toLowerCase(Field(a, "title")), word)
  \/ includes(toLowerCase(Field(a, "summary")), word)
  \/ \E i \in DOMAIN OrEmpty(a, "tags") :
       includes(toLowerCase(a.tags[i]), word)

\* min(1, n / 10) in hundredths, n counting those of the first 25 tokens of
\* the incident that have at least 4 characters and occur in the article.
Relevance(incident, a) ==
  The({The({IF n >= 10 THEN 100 ELSE 10 * n :
              n \in {Cardinality({i \in DOMAIN tokens :
                                    /\ i <= 25
                                    /\ Len(tokens[i]) >= 4
                                    /\ InArticle(tokens[i], a)})}}) :
         tokens \in {splitWords(textOf(incident))}})

\* C30: an invocation of suggestKnowledgeArticles returns at most 6
\* suggestions, each with a relevance of at least 0.25, the greater relevance
\* first, and the relevance of each is min(1, n/10) with n the number of the
\* incident's first 25 lower-case tokens that have at least 4 characters and
\* occur in the article's title, summary or tags; for an id that names no
\* incident it returns no suggestion and no error.
C30_SuggestionsRanked ==
  Suggested =>
    /\ result.err = ""
    /\ Len(result.recs) <= 6
    /\ \A i \in DOMAIN result.recs : result.recs[i].relevance_score >= 25
    /\ \A i, j \in DOMAIN result.recs :
         i < j => result.recs[i].relevance_score >= result.recs[j].relevance_score
    /\ \A r \in Named : \A i \in DOMAIN result.recs :
         result.recs[i].relevance_score = Relevance(r, result.recs[i].article)
    /\ Named = {} => result.recs = << >>

\* Six suggestions of two different relevances have been returned for the
\* incident of 37 tokens, with more than six articles at 0.25 or above.
C30_Witness ==
  /\ Suggested
  /\ Len(result.recs) = 6
  /\ result.recs[1].relevance_score = 100
  /\ result.recs[6].relevance_score = 50
  /\ \E r \in Named : Len(splitWords(textOf(r))) > 25
  /\ Len(Tbl(tables, "KnowledgeBaseArticle")) > 7

\* An invocation for an id that names no incident has returned.
C30_WitnessMissing ==
  /\ Suggested
  /\ result.id = "inc_404"
  /\ result.recs = << >>

-----------------------------------------------------------------------------
(* generatePredictions after incidents have been created *)

\* Incidents whose systems repeat a system of the seed in first and in second
\* place, and an incident without systems.
PredictIncidentInputs ==
  { [title |-> "Orders failing", severity |-> "high", status |-> "new",
     affected_systems |-> <<"Orders DB", "Checkout API">>],
    [title |-> "Checkout errors", severity |-> "high", status |-> "new",
     affected_systems |-> <<"Checkout API", "Orders DB">>],
    [title |-> "Login page slow", severity |-> "low", status |-> "new"] }

\* An incident is created while no invocation is in flight.
PredictIncident(data) == AllIdle /\ EntityCreate("Incident", data)

PredictNext ==
  \/ Tick
  \/ \E data \in PredictIncidentInputs : PredictIncident(data)
  \/ InvokePredictions
  \/ PredictionsSample
  \/ PredictionsExtra

SpecPredict == Init /\ [][PredictNext]_vars

\* How often a system occurs in the affected_systems lists of the incidents.
Frequency(sys) ==
  Cardinality({p \in {<<r, j>> : r \in Range(Tbl(tables, "Incident")),
                                 j \in 1..4} :
                 /\ p[2] \in DOMAIN OrEmpty(p[1], "affected_systems")
                 /\ p[1].affected_systems[p[2]] = sys})

SystemsSeen ==
  UNION {Range(OrEmpty(r, "affected_systems")) :
           r \in Range(Tbl(tables, "Incident"))}

\* The invocation has just created its fourth alert and returned.
ExtraCreated ==
  /\ lastAct = "generatePredictions"
  /\ AllIdle
  /\ result.op = "create"

\* C23: the fourth alert of generatePredictions names the system that occurs
\* most often in the affected_systems lists of the incidents, and the first
\* system of the fallback list only when no incident has a system.
C23_MostFrequentSystem ==
  ExtraCreated =>
    \E sys \in {result.recs[1].affected_systems[1]} :
      IF SystemsSeen = {}
      THEN sys = "Customer Portal"
      ELSE /\ sys \in SystemsSeen
           /\ \A other \in SystemsSeen : Frequency(sys) >= Frequency(other)

-----------------------------------------------------------------------------
(* A localStorage that cannot be written: setItem throws *)

\* The exception of a setItem that exceeds the quota, or is denied.
QuotaExceededError == "QuotaExceededError"

\* A call of the store whose saveDb() throws: saveJson has no try around
\* setItem, so the call rejects after it has changed the memory, and the key
\* keeps its blob.
setItemThrows(S, r) ==
  After(r.tables, S.durableDb,
        [r.ret EXCEPT !.err = QuotaExceededError, !.recs = << >>,
                      !.saved = FALSE])

\* db.create, db.update or db.remove in a browser whose setItem throws; the
\* call is one that reaches saveDb().
Rejected(r) ==
  /\ hasStorage
  /\ used.calls < MaxCalls
  /\ r.ret.saved
  /\ \E x \in {setItemThrows(Store(tables, durableDb), r)} :
       /\ tables' = x.tables
       /\ durableDb' = x.durableDb
       /\ result' = x.ret
  /\ nextId' = IF r.ret.op = "create" THEN nextId + 1 ELSE nextId
  /\ used' = [used EXCEPT !.calls = @ + 1]
  /\ lastAct' = "db." \o r.ret.op
  /\ UNCHANGED <<clock, lastCreate, peer>>
  /\ AppUnchanged

CreateRejected(t, data) ==
  Rejected(db_create(Store(tables, durableDb), t, data, uuid(nextId + 1)))

UpdateRejected(t, id, patch) ==
  Rejected(db_update(Store(tables, durableDb), t, id, patch))

RemoveRejected(t, id) ==
  Rejected(db_remove(Store(tables, durableDb), t, id))

QuotaNext ==
  \/ StoreNext
  \/ \E t \in StoreTables : \E data \in CreateInputs(clock) :
       CreateRejected(t, data)
  \/ \E t \in StoreTables : \E id \in TargetIds :
       \E patch \in PatchInputs(clock) : UpdateRejected(t, id, patch)
  \/ \E t \in StoreTables : \E id \in TargetIds : RemoveRejected(t, id)

SpecQuota == Init /\ [][QuotaNext]_vars

\* C24: whether the storage is absent or its key cannot be written, a call of
\* create, update, delete, list or filter raises no storage error: it
\* returns, or fails as it does with storage (an update of no record).
C24_NoStorageError ==
  lastAct \in {"db.create", "db.update", "db.remove", "db.list", "db.filter"}
    => result.err \in {"", NotFound}

-----------------------------------------------------------------------------
(* Decisions on an incident of an earlier visit *)

\* The form of the earlier visit.
VisitForm ==
  [title |-> "Checkout API latency spike",
   description |-> "p99 latency above 2s on the checkout gateway since the last deployment",
   severity |-> "critical", source |-> "Datadog",
   affected_systems |-> <<"Checkout API", "Orders DB">>]

\* The records the create-incident workflow has stored at time now: the
\* incident with its analysis, its automation and the three audit records.
visitRecords(now) ==
  The({The({The({
    [Incident |-> <<updateRec(inc, analysisPatch(analysis), now)>>,
     IncidentAutomation |->
       <<createRec(Spread([incident_id |-> inc.id], automation), uuid(4), now)>>,
     AuditLog |->
       <<createRec(auditEntry(inc.id, "incident_created", demoUser.email,
                              Pick(VisitForm, {"severity", "source"})),
                   uuid(2), now),
         createRec(auditEntry(inc.id, "ai_analysis_generated", "SYSTEM",
                              Pick(analysis, {"confidence_score"})),
                   uuid(3), now),
         createRec(auditEntry(inc.id, "automation_generated", "SYSTEM",
                              [assigned_team |-> automation.assigned_team,
                               confidence |-> automation.automation_confidence]),
                   uuid(5), now)>>,
     Decision |-> << >>] :
      automation \in {buildAutomationForIncident(
                        updateRec(inc, analysisPatch(analysis), now), analysis)}}) :
      analysis \in {InvokeLLM(promptOf(inc))}}) :
      inc \in {createRec(Spread(VisitForm, [status |-> "analyzing"]),
                         uuid(1), now)}})

\* The records of k decisions on the first recommendation, each with its
\* audit record.
decisionRecords(incident, k, now) ==
  The({[Decision |->
          [n \in 1..k |->
             createRec(Spread(d, [incident_id |-> incident.id,
                                  decided_by |-> demoUser.email,
                                  decided_at |-> now]),
                       uuid(4 + 2 * n), now)],
        AuditLog |->
          [n \in 1..k |->
             createRec(decisionAudit(incident.id, demoUser.email, d),
                       uuid(5 + 2 * n), now)]] :
         d \in {[recommendation_action |->
                   incident.ai_analysis.recommendations[1].action,
                 decision |-> "approved",
                 decision_reason |-> "Agreed with the analysis"]}})

\* The store after the visit and k decisions.
visitTables(k, now) ==
  The({The({[t \in DOMAIN ts |->
               ts[t] \o (IF t \in DOMAIN v THEN v[t] ELSE << >>)
                     \o (IF t \in DOMAIN d THEN d[t] ELSE << >>)] :
              d \in {decisionRecords(v.Incident[1], k, now)}}) :
         ts \in {seedTables(initialDb, Now0)}, v \in {visitRecords(now)}})

\* The module load of a page whose keys hold the store of an earlier visit
\* in which an incident was created and analysed and no or one decision was
\* made.
DecideInit ==
  \E k \in {0, 1} :
    /\ hasStorage = TRUE
    /\ clock = Now0
    /\ LET m == [initialMeta EXCEPT !.seeded = TRUE, !.currentUser = demoUser]
           s == ensureSeeded(dbBlob(visitTables(k, Now0)), metaBlob(m), TRUE,
                             Now0)
       IN  /\ tables = s.tables
           /\ meta = s.meta
           /\ durableDb = s.durableDb
           /\ durableMeta = s.durableMeta
    /\ nextId = 5 + 2 * k
    /\ result = Ret("load", "", "", << >>, "", << >>, FALSE)
    /\ lastCreate = NoCreate
    /\ procs = << >>
    /\ view = NoView
    /\ lastAct = "load"
    /\ used = [calls |-> 0, starts |-> 0]
    /\ peer = NoPeer

DecideNext ==
  \/ Tick
  \/ \E id \in DetailIds : OpenDetail(id)
  \/ \E i \in DOMAIN recommendationsOf(IF view.open THEN view.incident ELSE << >>) :
       \E d \in DecisionInputs(recommendationsOf(view.incident)[i]) :
         SubmitDecision(d)
  \/ DecisionAudit
  \/ DecisionCount
  \/ DecisionStatus

SpecDecide == DecideInit /\ [][DecideNext]_vars

\* The recommendations of the incident of the page, as the store holds them.
StoredRecommendations ==
  recommendationsOf(SelectSeq(Tbl(tables, "Incident"),
                              LAMBDA r : r.id = view.incidentId))

\* The recommendation has a Decision record of the incident.
Decided(rec) ==
  \E d \in Range(Tbl(tables, "Decision")) :
    /\ d.incident_id = view.incidentId
    /\ d.recommendation_action = rec.action

\* C25: the last step of submitDecision sets the incident to in_progress
\* only if every recommendation of the incident's ai_analysis has at least
\* one Decision record, and the incident has a recommendation.
C25_AllDecidedBeforeProgress ==
  [][(/\ At("sd_status")
      /\ lastAct' = "submitDecision"
      /\ result'.op = "update"
      /\ result'.err = "")
       => /\ StoredRecommendations # << >>
          /\ \A i \in DOMAIN StoredRecommendations :
               Decided(StoredRecommendations[i])]_vars

-----------------------------------------------------------------------------
(* The create-incident workflow on its own *)

\* The steps of handleSubmit, generateAIAnalysis and the automation it
\* invokes, each from one await to the next.
FlowSteps ==
  \/ SubmitMe
  \/ SubmitAudit
  \/ SubmitAnalyze
  \/ AnalysisUpdate
  \/ AnalysisAudit
  \/ AnalysisAutomate
  \/ AutomateExisting
  \/ AutomateUpsert
  \/ AutomateAudit

FlowNext ==
  \/ Tick
  \/ \E formData \in FormInputs : SubmitIncident(formData)
  \/ FlowSteps

\* A promise that can resume does resume: the event loop runs the
\* continuation of every settled await.
SpecFlow == Init /\ [][FlowNext]_vars /\ WF_vars(FlowSteps)

\* The incidents that were submitted through the form: those db.create has
\* given an id.
Submitted ==
  {r \in Range(Tbl(tables, "Incident")) : r.id \in {uuid(n) : n \in 1..nextId}}

\* The action types of the audit records of an incident, in the order of the
\* table.
AuditTrail(id) ==
  [i \in DOMAIN SelectSeq(Tbl(tables, "AuditLog"),
                          LAMBDA a : a.incident_id = id) |->
     SelectSeq(Tbl(tables, "AuditLog"),
               LAMBDA a : a.incident_id = id)[i].action_type]

\* The workflow of the incident has completed.
Completed(r) ==
  /\ Has(r, "ai_analysis")
  /\ r.status = "awaiting_approval"
  /\ Cardinality({i \in DOMAIN Tbl(tables, "IncidentAutomation") :
                    tables["IncidentAutomation"][i].incident_id = r.id}) = 1
  /\ AuditTrail(r.id) = <<"incident_created", "ai_analysis_generated",
                          "automation_generated">>

FlowSafe ==
  /\ \A r \in Range(Tbl(tables, "Incident")) :
       r.status = "awaiting_approval" => Has(r, "ai_analysis")
  /\ (lastAct = "handleSubmit" /\ result.op = "create"
        /\ result.table = "Incident") => result.recs[1].status = "analyzing"
  /\ AllIdle => \A r \in Submitted : Completed(r)

\* C26: the asynchronous steps of the workflow of a submitted incident
\* eventually complete, and then the incident, created with status
\* "analyzing", has an ai_analysis and status "awaiting_approval", exactly one
\* IncidentAutomation record, and the audit records incident_created,
\* ai_analysis_generated and automation_generated in that order; at no time is
\* an incident awaiting approval without an ai_analysis.
C26_WorkflowCompletes ==
  /\ []FlowSafe
  /\ (~AllIdle) ~> AllIdle

\* The workflow of a submitted incident has completed.
C26_Witness ==
  /\ AllIdle
  /\ lastAct = "automateIncidentResponse"
  /\ \E r \in Submitted : Completed(r)

-----------------------------------------------------------------------------
(* The Predictions page: its two queries and its mutation *)

HistoricalLimit == 20

DismissReasons == {"", "False positive"}

AlertIds == {a.id : a \in Range(seedPredictiveAlert(Now0))}

\* The alerts the page shows as active, each with its buttons.
ShownActive(id) ==
  \E a \in Range(Tbl(tables, "PredictiveAlert")) :
    a.id = id /\ a.status = "active"

\* A query of the page runs its queryFn, a filter of PredictiveAlert.
AlertQuery(name, where, sort, limit) ==
  /\ \E r \in {db_filter(Store(tables, durableDb), "PredictiveAlert", where,
                         sort, limit)} :
       /\ tables' = r.tables
       /\ result' = r.ret
  /\ lastAct' = name
  /\ UNCHANGED peer
  /\ UNCHANGED <<durableDb, clock, nextId, lastCreate, used>>
  /\ AppUnchanged

\* useQuery(["predictiveAlerts"])
ActiveAlerts ==
  AlertQuery("predictiveAlerts", [status |-> Eq("active")], "-created_date",
             DefaultFilterLimit)

\* useQuery(["historicalAlerts"]): the condition on status is the object
\* {$in: [...]}.
HistoricalAlerts ==
  AlertQuery("historicalAlerts", [status |-> Obj], "-updated_date",
             HistoricalLimit)

\* updateAlert.mutate({id, data}); its onSuccess invalidates both queries,
\* which then run again.
UpdateAlert(id, data) ==
  /\ ShownActive(id)
  /\ used.calls < MaxCalls
  /\ \E r \in {db_update(Store(tables, durableDb), "PredictiveAlert", id,
                         data)} :
       /\ tables' = r.tables
       /\ durableDb' = r.durableDb
       /\ result' = r.ret
  /\ used' = [used EXCEPT !.calls = @ + 1]
  /\ lastAct' = "updateAlert"
  /\ UNCHANGED peer
  /\ UNCHANGED <<clock, nextId, lastCreate>>
  /\ AppUnchanged

confirmDismiss(id, dismissReason) ==
  UpdateAlert(id, [status |-> "dismissed", dismissed_reason |-> dismissReason])

handleMarkPrevented(id) == UpdateAlert(id, [status |-> "prevented"])

AlertsNext ==
  \/ Tick
  \/ ActiveAlerts
  \/ HistoricalAlerts
  \/ \E id \in AlertIds : \E reason \in DismissReasons :
       confirmDismiss(id, reason)
  \/ \E id \in AlertIds : handleMarkPrevented(id)

SpecAlerts == Init /\ [][AlertsNext]_vars

\* The alerts that are no longer active.
Historical ==
  {a \in Range(Tbl(tables, "PredictiveAlert")) :
     a.status \in {"prevented", "dismissed", "occurred"}}

\* C27: after an active alert is dismissed or marked prevented, the
\* active-alerts query of the Predictions page does not return it, and the
\* historical-alerts query of the page, which selects the alerts whose status
\* is prevented, dismissed or occurred, returns it.
C27_DismissedIsHistorical ==
  /\ lastAct = "predictiveAlerts" =>
       \A a \in Historical : \A i \in DOMAIN result.recs :
         result.recs[i].id # a.id
  /\ (lastAct = "historicalAlerts" /\ Cardinality(Historical) <= HistoricalLimit)
       => \A a \in Historical : \E i \in DOMAIN result.recs :
            result.recs[i].id = a.id

-----------------------------------------------------------------------------
(* ensureSeeded at a page load *)

\* C28: ensureSeeded writes the seed data at most once and never destroys
\* user data: a run with the seeded flag set changes nothing, and no run, the
\* run of a page load whose meta key is missing while the store key holds
\* data included, removes or replaces a record that is in a table.
C28_SeedKeepsRecords ==
  [][lastAct' = "load" =>
       /\ loadMeta(durableMeta, hasStorage).seeded =>
            /\ tables' = loadDb(durableDb, hasStorage)
            /\ durableDb' = durableDb
            /\ durableMeta' = durableMeta
       /\ \A t \in DOMAIN loadDb(durableDb, hasStorage) :
            \A i \in DOMAIN loadDb(durableDb, hasStorage)[t] :
              \E j \in DOMAIN Tbl(tables', t) :
                tables'[t][j] = loadDb(durableDb, hasStorage)[t][i]]_vars

-----------------------------------------------------------------------------
(* The analysis the workflow stores, against the analyzer on the incident *)

\* The submitted incidents that have their analysis and whose description
\* has at most 40 characters.
ShortAnalysed ==
  {r \in Submitted :
     Has(r, "ai_analysis") /\ Len(OrElse(r, "description", "")) <= 40}

\* C29: the ai_analysis stored on an incident that was created through the
\* workflow with a description of at most 40 characters has the confidence
\* of its severity less the data-quality penalty of 0.08, which is the
\* confidence the analyzer gives when applied to the incident record.
C29_StoredConfidence ==
  \A r \in ShortAnalysed :
    /\ r.ai_analysis.confidence_score
         = clamp01(baseConfOf(toLowerCase(OrElse(r, "severity", "medium"))) - 8)
    /\ r.ai_analysis.confidence_score
         = buildAnalysisFromIncident(r).confidence_score

====
